---- MODULE Spec2Model ----
(***************************************************************************)
(* Model of the route-planning core of the Ceci assistant                  *)
(* (services/rota_service.py) and of the plan_route branch of the tool     *)
(* layer (orchestrator.py, ToolRegistry.call).                             *)
(*                                                                         *)
(* Strings are sequences of characters; a character is a one-token string. *)
(* Accented characters are written with a trailing mark: "e'" is e-acute,  *)
(* "A'" is A-acute.  None (Python) is the empty sequence, which is also    *)
(* the only falsy string.                                                  *)
(***************************************************************************)
EXTENDS Integers, Sequences, FiniteSets, TLC

VARIABLES
  dados,        \* the topology _load_data returns
  graphCache,   \* lru_cache of _build_graph
  statusCache,  \* lru_cache of _fetch_status, and how that one fetch ended
  cacheInfo,    \* how often the bodies of the two cached functions ran
  pc,           \* the caller: "idle", or "returned" with a result in hand
  result,       \* the last call: its name, arguments and value
  threads,      \* concurrent callers of plan_route: where each one is
  sessions,     \* LLMOrchestrator._sessions: the messages of each session
  reports,      \* the PDF files that gerar_pdf_relatorio has written
  chat,         \* the request to the assistant in progress, and its answer
  index         \* the KnowledgeIndex, its cache file and its search tasks

chatVars == <<sessions, reports, chat>>

vars ==
  <<dados, graphCache, statusCache, cacheInfo, pc, result, threads, chatVars,
    index>>

None == <<>>

Range(s) == {s[i] : i \in 1..Len(s)}

(***************************************************************************)
(* Characters and _normalize                                               *)
(***************************************************************************)

\* Unicode code points of the characters the model uses.
CodePoint ==
  (" " :> 32) @@ ("!" :> 33) @@ ("," :> 44) @@ ("?" :> 63) @@ ("1" :> 49) @@
  ("2" :> 50) @@ ("3" :> 51) @@ ("4" :> 52) @@ ("A" :> 65) @@ ("B" :> 66) @@
  ("C" :> 67) @@ ("D" :> 68) @@ ("E" :> 69) @@ ("F" :> 70) @@ ("G" :> 71) @@
  ("H" :> 72) @@ ("I" :> 73) @@ ("J" :> 74) @@ ("K" :> 75) @@ ("L" :> 76) @@
  ("M" :> 77) @@ ("N" :> 78) @@ ("O" :> 79) @@ ("P" :> 80) @@ ("Q" :> 81) @@
  ("R" :> 82) @@ ("S" :> 83) @@ ("T" :> 84) @@ ("U" :> 85) @@ ("V" :> 86) @@
  ("W" :> 87) @@ ("X" :> 88) @@ ("Y" :> 89) @@ ("Z" :> 90) @@ ("a" :> 97) @@
  ("b" :> 98) @@ ("c" :> 99) @@ ("d" :> 100) @@ ("e" :> 101) @@
  ("f" :> 102) @@ ("g" :> 103) @@ ("h" :> 104) @@ ("i" :> 105) @@
  ("j" :> 106) @@ ("k" :> 107) @@ ("l" :> 108) @@ ("m" :> 109) @@
  ("n" :> 110) @@ ("o" :> 111) @@ ("p" :> 112) @@ ("q" :> 113) @@
  ("r" :> 114) @@ ("s" :> 115) @@ ("t" :> 116) @@ ("u" :> 117) @@
  ("v" :> 118) @@ ("w" :> 119) @@ ("x" :> 120) @@ ("y" :> 121) @@
  ("z" :> 122) @@
  ("A'" :> 193) @@ ("a'" :> 225) @@ ("a~" :> 227) @@ ("e'" :> 233) @@
  ("e^" :> 234) @@ ("o'" :> 243) @@ ("u'" :> 250) @@
  ("^'" :> 769) @@ ("^^" :> 770) @@ ("^~" :> 771)

Chars == DOMAIN CodePoint

\* Canonical decomposition of the accented characters (NFKD): base letter
\* followed by the combining accent: acute "^'" (U+0301), circumflex "^^"
\* (U+0302) or tilde "^~" (U+0303).
Nfkd(c) ==
  CASE c = "A'" -> <<"A", "^'">>
    [] c = "a'" -> <<"a", "^'">>
    [] c = "a~" -> <<"a", "^~">>
    [] c = "e'" -> <<"e", "^'">>
    [] c = "e^" -> <<"e", "^^">>
    [] c = "o'" -> <<"o", "^'">>
    [] c = "u'" -> <<"u", "^'">>
    [] OTHER -> <<c>>

\* str.lower / str.casefold on one character.
LowerChar(c) ==
  IF CodePoint[c] >= 65 /\ CodePoint[c] <= 90
    THEN CHOOSE d \in Chars : CodePoint[d] = CodePoint[c] + 32
    ELSE IF c = "A'" THEN "a'" ELSE c

\* The images of the characters of s under f, one after the other.
RECURSIVE FlatMap(_, _)
FlatMap(f, s) ==
  IF s = <<>> THEN <<>>
  ELSE IF Len(s) = 1 THEN f[s[1]]
  ELSE FlatMap(f, SubSeq(s, 1, Len(s) \div 2))
         \o FlatMap(f, SubSeq(s, Len(s) \div 2 + 1, Len(s)))

\* encode("ASCII", "ignore"): characters above 127 are dropped.
AsciiIgnore(s) == SelectSeq(s, LAMBDA c : CodePoint[c] < 128)

Lower(s) == [i \in 1..Len(s) |-> LowerChar(s[i])]

\* unicodedata.normalize("NFKD", texto or "").encode("ASCII","ignore")
\*   .decode("ASCII").casefold()
Normalize(texto) ==
  Lower(AsciiIgnore(FlatMap([c \in Chars |-> Nfkd(c)], texto)))

\* Python's ordering of str: lexicographic by code point.
RECURSIVE StrLess(_, _)
StrLess(s, t) ==
  IF t = <<>> THEN FALSE
  ELSE IF s = <<>> THEN TRUE
  ELSE IF CodePoint[Head(s)] # CodePoint[Head(t)]
    THEN CodePoint[Head(s)] < CodePoint[Head(t)]
    ELSE StrLess(Tail(s), Tail(t))

\* str.strip(): leading and trailing blanks removed.
RECURSIVE LStrip(_)
LStrip(s) == IF s # <<>> /\ Head(s) = " " THEN LStrip(Tail(s)) ELSE s

RECURSIVE RStrip(_)
RStrip(s) ==
  IF s # <<>> /\ s[Len(s)] = " " THEN RStrip(SubSeq(s, 1, Len(s) - 1)) ELSE s

Strip(s) == RStrip(LStrip(s))

\* Python's "p in s" on strings.
IsSubstring(p, s) ==
  \E i \in 0..(Len(s) - Len(p)) : SubSeq(s, i + 1, i + Len(p)) = p

(***************************************************************************)
(* Topology (data/data_linhas.json as returned by _load_data)              *)
(***************************************************************************)

TEMPO_BASE == 3

\* Station display names.
Agua == <<"A'", "g", "u", "a">>
Bras == <<"B", "r", "a'", "s">>
Luz == <<"L", "u", "z">>
Lapa == <<"L", "a", "p", "a">>
Se == <<"S", "e'">>
Moema == <<"M", "o", "e", "m", "a">>
Maua == <<"M", "a", "u", "a'">>
Jau == <<"J", "a", "u'">>

\* Line names.
L1 == <<"L", "1">>
L2 == <<"L", "2">>
L3 == <<"L", "3">>
L4 == <<"L", "4">>

Linha(nome, operadora, estacoes) ==
  [nome |-> nome, operadora |-> operadora, estacoes |-> estacoes]

\* Two lines meeting at Luz, a one-station line and a separate component.
TopoTwoLines ==
  [linhas |-> << Linha(L1, "Metro", <<Agua, Bras, Luz>>),
                 Linha(L2, "CPTM", <<Luz, Lapa, Se>>),
                 Linha(L3, "Metro", <<Moema>>),
                 Linha(L4, "CPTM", <<Maua, Jau>>) >>]

\* A loop: two routes of different length between Agua and Lapa.
TopoLoop ==
  [linhas |-> << Linha(L1, "Metro", <<Agua, Bras, Luz, Lapa>>),
                 Linha(L2, "CPTM", <<Agua, Se, Lapa>>) >>]

\* Two lines sharing the consecutive pair Bras-Luz, and two routes of equal
\* length between Agua and Luz.
TopoShared ==
  [linhas |-> << Linha(L1, "Metro", <<Agua, Bras, Luz>>),
                 Linha(L2, "CPTM", <<Bras, Luz, Lapa>>),
                 Linha(L3, "Metro", <<Agua, Se, Luz>>) >>]

\* A short line whose only pair of stations is also the start of a longer
\* line.
TopoBranch ==
  [linhas |-> << Linha(L1, "Metro", <<Agua, Bras>>),
                 Linha(L2, "CPTM", <<Agua, Bras, Luz>>) >>]

Topologies == {TopoTwoLines, TopoLoop, TopoShared, TopoBranch}

(***************************************************************************)
(* _build_graph: networkx.Graph with insertion-ordered nodes and adjacency *)
(***************************************************************************)

EmptyGraph == [nodes |-> <<>>, adj |-> <<>>, edge |-> <<>>, baldeacoes |-> <<>>]

AddNode(g, n) ==
  IF n \in Range(g.nodes) THEN g
  ELSE [g EXCEPT !.nodes = Append(g.nodes, n),
                 !.adj = (n :> <<>>) @@ g.adj,
                 !.baldeacoes = (n :> <<>>) @@ g.baldeacoes]

AddNeighbor(g, a, b) ==
  IF b \in Range(g.adj[a]) THEN g
  ELSE [g EXCEPT !.adj[a] = Append(g.adj[a], b)]

\* graph.add_edge(a, b, tempo=..., linha=..., operadora=...): an existing
\* edge keeps its place in the adjacency and gets the new attributes.
AddEdge(g, a, b, attrs) ==
  LET g1 == AddNeighbor(AddNeighbor(AddNode(AddNode(g, a), b), a, b), b, a)
  IN [g1 EXCEPT !.edge = (<<a, b>> :> attrs) @@ (<<b, a>> :> attrs) @@ g1.edge]

\* The edges of one line from its i-th station on.  (The test on g.nodes
\* has the graph so far computed before the next edge is added to it.)
RECURSIVE AddLineEdges(_, _, _)
AddLineEdges(g, linha, i) ==
  IF Len(g.nodes) >= 0 /\ i < Len(linha.estacoes)
    THEN AddLineEdges(
           AddEdge(g, linha.estacoes[i], linha.estacoes[i + 1],
                   [tempo |-> TEMPO_BASE, linha |-> linha.nome,
                    operadora |-> linha.operadora]),
           linha, i + 1)
    ELSE g

RECURSIVE AddLines(_, _, _)
AddLines(g, linhas, k) ==
  IF Len(g.nodes) >= 0 /\ k <= Len(linhas)
    THEN AddLines(AddLineEdges(g, linhas[k], 1), linhas, k + 1)
    ELSE g

\* [linha.get("nome") for linha in linhas if estacao in linha["estacoes"]]
LinhasEncontradas(d, estacao) ==
  LET sel == SelectSeq(d.linhas, LAMBDA l : estacao \in Range(l.estacoes))
  IN [i \in 1..Len(sel) |-> sel[i].nome]

MarkBaldeacoes(d, g) ==
  [g EXCEPT !.baldeacoes =
     [n \in DOMAIN g.baldeacoes |->
        IF Len(LinhasEncontradas(d, n)) > 1
          THEN LinhasEncontradas(d, n) ELSE <<>>]]

BuildGraph(d) == MarkBaldeacoes(d, AddLines(EmptyGraph, d.linhas, 1))

HasEdge(g, u, v) == <<u, v>> \in DOMAIN g.edge

InGraph(g, n) == n \in Range(g.nodes)

(***************************************************************************)
(* list_all_stations                                                       *)
(***************************************************************************)

RECURSIVE SortStr(_)
SortStr(S) ==
  IF S = {} THEN <<>>
  ELSE LET m == CHOOSE x \in S : \A y \in S \ {x} : StrLess(x, y)
       IN <<m>> \o SortStr(S \ {m})

ListAllStations(d) ==
  SortStr(UNION {Range(d.linhas[k].estacoes) : k \in 1..Len(d.linhas)})

(***************************************************************************)
(* _resolver_estacao (difflib.get_close_matches, n=1, cutoff=0.8)          *)
(***************************************************************************)

\* Length of the common run of a and b that starts after offsets i and j and
\* stays inside a[..ahi] and b[..bhi].
RECURSIVE RunLen(_, _, _, _, _, _)
RunLen(a, b, i, j, ahi, bhi) ==
  IF i < ahi /\ j < bhi /\ a[i + 1] = b[j + 1]
    THEN 1 + RunLen(a, b, i + 1, j + 1, ahi, bhi)
    ELSE 0

\* SequenceMatcher.find_longest_match: among the blocks <<i, j, k>> the
\* longest, the leftmost in a among the longest, the leftmost in b among
\* those.
Longest(blocks) ==
  CHOOSE m \in blocks :
    \A e \in blocks :
      \/ m[3] > e[3]
      \/ /\ m[3] = e[3]
         /\ \/ m[1] < e[1]
            \/ m[1] = e[1] /\ m[2] <= e[2]

FindLongestMatch(a, b, alo, ahi, blo, bhi) ==
  IF alo >= ahi \/ blo >= bhi THEN <<alo, blo, 0>>
  ELSE Longest({<<i, j, RunLen(a, b, i, j, ahi, bhi)>> :
                  i \in alo..(ahi - 1), j \in blo..(bhi - 1)})

\* Sum of the sizes of SequenceMatcher.get_matching_blocks: the longest
\* block m, then the blocks to its left and to its right.
RECURSIVE Matches(_, _, _, _, _, _)
MatchesAround(a, b, alo, ahi, blo, bhi, m) ==
  IF m[3] = 0 THEN 0
  ELSE m[3]
       + (IF alo < m[1] /\ blo < m[2]
            THEN Matches(a, b, alo, m[1], blo, m[2]) ELSE 0)
       + (IF m[1] + m[3] < ahi /\ m[2] + m[3] < bhi
            THEN Matches(a, b, m[1] + m[3], ahi, m[2] + m[3], bhi) ELSE 0)

Matches(a, b, alo, ahi, blo, bhi) ==
  MatchesAround(a, b, alo, ahi, blo, bhi,
                FindLongestMatch(a, b, alo, ahi, blo, bhi))

\* SequenceMatcher.ratio() as the fraction <<numerator, denominator>>.
Ratio(a, b) ==
  IF Len(a) + Len(b) = 0 THEN <<1, 1>>
  ELSE <<2 * Matches(a, b, 0, Len(a), 0, Len(b)), Len(a) + Len(b)>>

\* A cutoff that a ratio of exactly 0.8 does not pass.
AboveCutoffStrict(r) == 10 * r[1] > 8 * r[2]

\* ratio >= 0.8 (real_quick_ratio and quick_ratio are upper bounds of ratio
\* and filter nothing more).
AboveCutoff(r) == 10 * r[1] >= 8 * r[2]

RatioLess(r, q) == r[1] * q[2] < q[1] * r[2]

\* heapq.nlargest(1, result): the largest (score, candidate) pair.
Largest(scored) ==
  CHOOSE x \in scored :
    \A y \in scored \ {x} :
      \/ RatioLess(y[1], x[1])
      \/ ~RatioLess(x[1], y[1]) /\ StrLess(y[2], x[2])

Candidates(scored) == IF scored = {} THEN <<>> ELSE <<Largest(scored)[2]>>

\* get_close_matches(word, possibilities, n=1, cutoff=0.8)
GetCloseMatches(word, possibilities) ==
  Candidates({sx \in {<<Ratio(x, word), x>> : x \in possibilities} :
                AboveCutoff(sx[1])})

\* { _normalize(est): est for est in estacoes }: a later station replaces an
\* earlier one with the same normalized name.
MapaNormalizado(estacoes) ==
  [k \in {Normalize(e) : e \in Range(estacoes)} |->
     LET last == CHOOSE i \in 1..Len(estacoes) :
                   /\ Normalize(estacoes[i]) = k
                   /\ \A j \in (i + 1)..Len(estacoes) :
                        Normalize(estacoes[j]) # k
     IN estacoes[last]]

\* The two lookups of _resolver_estacao in mapa_normalizado.
Lookup(mapa, normalizado, candidatos) ==
  IF normalizado \in DOMAIN mapa THEN mapa[normalizado]
  ELSE IF candidatos # <<>> THEN mapa[candidatos[1]]
  ELSE None

ResolverIn(mapa, normalizado) ==
  Lookup(mapa, normalizado, GetCloseMatches(normalizado, DOMAIN mapa))

ResolverEstacao(d, nome) ==
  IF nome = <<>> THEN None
  ELSE ResolverIn(MapaNormalizado(ListAllStations(d)), Normalize(nome))

(***************************************************************************)
(* _fetch_status                                                           *)
(***************************************************************************)

Falha == <<"F", "a", "l", "h", "a">>
Reduzida == <<" ", "R", "E", "D", "U", "Z", "I", "D", "A", " ">>
Normal == <<"N", "o", "r", "m", "a", "l">>

Keywords ==
  { <<"r", "e", "d", "u", "z", "i", "d", "a">>,
    <<"f", "a", "l", "h", "a">>,
    <<"i", "n", "t", "e", "r", "r", "u", "p">> }

\* A record of the feed; bad: a record on which item.get(...) or .strip()
\* raises (not an object, or a null "situacao").
Item(nome, situacao) == [bad |-> FALSE, nome |-> nome, situacao |-> situacao]
BadItem == [bad |-> TRUE, nome |-> <<>>, situacao |-> <<>>]

FeedItems ==
  { Item(L1, Falha), Item(<<"l", "2">>, Reduzida), Item(L1, Normal), BadItem }

MaxFeedLen == 2

\* What requests.get(...) / raise_for_status() / resp.json() can produce:
\* an exception, or the decoded list of records.
FeedDown == [ok |-> FALSE, items |-> <<>>]

FeedResponses ==
  {FeedDown} \cup
  UNION { {[ok |-> TRUE, items |-> s] : s \in [1..n -> FeedItems]}
          : n \in 0..MaxFeedLen }

\* The loop over resp.json(): stops at the first record that raises and
\* keeps what it had stored so far.
RECURSIVE ParseItems(_, _, _)
ParseItems(items, k, status) ==
  IF k > Len(items) THEN [status |-> status, error |-> "none"]
  ELSE IF items[k].bad THEN [status |-> status, error |-> "record"]
  ELSE ParseItems(items, k + 1,
         (Normalize(items[k].nome) :> Strip(items[k].situacao)) @@ status)

FetchStatus(resp) ==
  IF ~resp.ok THEN [status |-> <<>>, error |-> "request"]
  ELSE ParseItems(resp.items, 1, <<>>)

(***************************************************************************)
(* _calcular_peso, _custo_total, _detectar_baldeacoes                      *)
(***************************************************************************)

Modos == <<"rapido", "simples", "acessivel">>

\* graph.get_edge_data(u, v) or {} followed by the .get defaults.
EdgeTempo(g, u, v) == IF HasEdge(g, u, v) THEN g.edge[<<u, v>>].tempo ELSE TEMPO_BASE
EdgeLinha(g, u, v) == IF HasEdge(g, u, v) THEN g.edge[<<u, v>>].linha ELSE <<>>

\* dict.get(key, "")
Get(status, key) == IF key \in DOMAIN status THEN status[key] ELSE <<>>

\* A line missing from the status map taken for a failed line.
SituacaoDefaultFalha(status, linha) ==
  IF Get(status, Normalize(linha)) = <<>> THEN <<"f", "a", "l", "h", "a">>
  ELSE Lower(Get(status, Normalize(linha)))

Situacao(status, linha) == Lower(Get(status, Normalize(linha)))

Degradada(status, linha) ==
  \E p \in Keywords : IsSubstring(p, Situacao(status, linha))

\* A profile addition that takes two minutes off the accessible profile.
ComModoRebate(g, u, modo, tempo) ==
  IF modo = "simples" /\ g.baldeacoes[u] # <<>> THEN tempo + 3
  ELSE IF modo = "acessivel" THEN tempo - 2
  ELSE tempo

\* The last lines of _calcular_peso: what the profile adds to tempo.
ComModo(g, u, modo, tempo) ==
  IF modo = "simples" /\ g.baldeacoes[u] # <<>> THEN tempo + 3
  ELSE IF modo = "acessivel" THEN tempo + 2
  ELSE tempo

\* _calcular_peso that sets the time of a degraded edge to 10.
CalcularPesoSet10(g, status, u, v, modo) ==
  ComModo(g, u, modo,
          IF Degradada(status, EdgeLinha(g, u, v)) THEN 10
          ELSE EdgeTempo(g, u, v))

CalcularPeso(g, status, u, v, modo) ==
  ComModo(g, u, modo,
          EdgeTempo(g, u, v)
          + (IF Degradada(status, EdgeLinha(g, u, v)) THEN 10 ELSE 0))

RECURSIVE CustoTotal(_, _, _, _)
CustoTotal(g, status, caminho, modo) ==
  IF Len(caminho) < 2 THEN 0
  ELSE CalcularPeso(g, status, caminho[1], caminho[2], modo)
       + CustoTotal(g, status, Tail(caminho), modo)

\* The test of _detectar_baldeacoes at the station between two segments.
Troca(estacao, linha_previa, linha_atual) ==
  IF linha_atual # linha_previa
    THEN << <<estacao, linha_previa, linha_atual>> >> ELSE <<>>

\* The loop of _detectar_baldeacoes from segment idx (0-based) on.
RECURSIVE DetectarFrom(_, _, _)
DetectarFrom(g, caminho, idx) ==
  IF idx > Len(caminho) - 2 THEN <<>>
  ELSE Troca(caminho[idx + 1],
             EdgeLinha(g, caminho[idx], caminho[idx + 1]),
             EdgeLinha(g, caminho[idx + 1], caminho[idx + 2]))
       \o DetectarFrom(g, caminho, idx + 1)

\* _detectar_baldeacoes that skips the second segment too.
DetectarBaldeacoesSkip(g, caminho) == DetectarFrom(g, caminho, 2)

DetectarBaldeacoes(g, caminho) == DetectarFrom(g, caminho, 1)

(***************************************************************************)
(* Path search: networkx.shortest_path (hops), astar_path, dijkstra_path   *)
(***************************************************************************)

Neighbors(g, S) == UNION {Range(g.adj[n]) : n \in S}

RECURSIVE BfsDepth(_, _, _, _, _)
BfsDepth(g, frontier, seen, target, depth) ==
  IF target \in frontier THEN depth
  ELSE LET next == Neighbors(g, frontier) \ seen
       IN IF next = {} THEN -1
          ELSE BfsDepth(g, next, seen \cup next, target, depth + 1)

\* len(nx.shortest_path(graph, u, v)) - 1, or -1 where it raises
\* NetworkXNoPath.
Hops(g, u, v) == BfsDepth(g, {u}, {u}, v, 0)

Reachable(g, u, v) == InGraph(g, u) /\ InGraph(g, v) /\ Hops(g, u, v) >= 0

\* heappop: the entry with the least (priority, insertion count).
HeapMin(queue) ==
  CHOOSE e \in queue :
    \A f \in queue :
      e.prio < f.prio \/ (e.prio = f.prio /\ e.cnt <= f.cnt)

RECURSIVE PathBack(_, _)
PathBack(pred, node) ==
  IF node = None THEN <<>> ELSE PathBack(pred, pred[node]) \o <<node>>

NoPath == [kind |-> "NetworkXNoPath", path |-> <<>>]
NodeNotFound == [kind |-> "NodeNotFound", path |-> <<>>]
Contradictory == [kind |-> "ValueError", path |-> <<>>]
Found(path) == [kind |-> "path", path |-> path]

AstarPush(st, cur, neighbor, ncost, h) ==
  [st EXCEPT
     !.enqueued = (neighbor :> <<ncost, h>>) @@ st.enqueued,
     !.queue = st.queue \cup
               {[prio |-> ncost + h, cnt |-> st.c, node |-> neighbor,
                 dist |-> ncost, parent |-> cur]},
     !.c = st.c + 1]

\* astar_path under a heuristic of 20 per hop, which overestimates.
AstarVisitOver(st, cur, neighbor, ncost, hops) ==
  IF neighbor \in DOMAIN st.enqueued
    THEN IF st.enqueued[neighbor][1] <= ncost THEN st
         ELSE AstarPush(st, cur, neighbor, ncost, st.enqueued[neighbor][2])
  ELSE IF hops < 0 THEN [st EXCEPT !.raised = TRUE]
  ELSE AstarPush(st, cur, neighbor, ncost, 20 * hops)

\* One neighbour of curnode in astar_path: ncost is its cost through
\* curnode; the heuristic is evaluated for a neighbour met for the first
\* time and raises NetworkXNoPath where the target is out of reach
\* (hops < 0).
AstarVisit(st, cur, neighbor, ncost, hops) ==
  IF neighbor \in DOMAIN st.enqueued
    THEN IF st.enqueued[neighbor][1] <= ncost THEN st
         ELSE AstarPush(st, cur, neighbor, ncost, st.enqueued[neighbor][2])
  ELSE IF hops < 0 THEN [st EXCEPT !.raised = TRUE]
  ELSE AstarPush(st, cur, neighbor, ncost, TEMPO_BASE * hops)

\* The loop over the neighbours of curnode in astar_path.
RECURSIVE AstarRelax(_, _, _, _, _, _, _, _)
AstarRelax(g, status, modo, target, cur, dist, i, st) ==
  IF i > Len(g.adj[cur]) \/ st.raised THEN st
  ELSE AstarRelax(g, status, modo, target, cur, dist, i + 1,
         AstarVisit(st, cur, g.adj[cur][i],
                    dist + CalcularPeso(g, status, cur, g.adj[cur][i], modo),
                    Hops(g, g.adj[cur][i], target)))

RECURSIVE AstarLoop(_, _, _, _, _)
\* The body of the while loop of astar_path for the popped entry e.
AstarPop(g, status, modo, target, st, e) ==
  IF e.node = target
    THEN Found(PathBack(st.explored, e.parent) \o <<e.node>>)
  ELSE IF /\ e.node \in DOMAIN st.explored
          /\ \/ st.explored[e.node] = None
             \/ st.enqueued[e.node][1] < e.dist
    THEN AstarLoop(g, status, modo, target, [st EXCEPT !.queue = st.queue \ {e}])
  ELSE AstarLoop(g, status, modo, target,
         AstarRelax(g, status, modo, target, e.node, e.dist, 1,
           [st EXCEPT !.queue = st.queue \ {e},
                      !.explored = (e.node :> e.parent) @@ st.explored]))

AstarLoop(g, status, modo, target, st) ==
  IF st.raised \/ st.queue = {} THEN NoPath
  ELSE AstarPop(g, status, modo, target, st, HeapMin(st.queue))

AstarStart(source) ==
  [queue |-> {[prio |-> 0, cnt |-> 0, node |-> source, dist |-> 0,
               parent |-> None]},
   enqueued |-> <<>>, explored |-> <<>>, c |-> 1, raised |-> FALSE]

\* astar_path that returns the two ends of the path it found.
Ends(r) ==
  IF r.kind = "path" /\ Len(r.path) > 2
    THEN Found(<<r.path[1], r.path[Len(r.path)]>>) ELSE r

AstarPathEnds(g, status, source, target, modo) ==
  IF ~InGraph(g, source) \/ ~InGraph(g, target) THEN NodeNotFound
  ELSE Ends(AstarLoop(g, status, modo, target, AstarStart(source)))

\* nx.astar_path(graph, source, target, heuristic=3*hops, weight=peso(modo))
AstarPath(g, status, source, target, modo) ==
  IF ~InGraph(g, source) \/ ~InGraph(g, target) THEN NodeNotFound
  ELSE AstarLoop(g, status, modo, target, AstarStart(source))

\* One neighbour u of v in _dijkstra_multisource: vu_dist is its distance
\* through v.
DijkstraVisit(st, v, u, vu_dist) ==
  IF u \in DOMAIN st.dist
    THEN IF vu_dist < st.dist[u] THEN [st EXCEPT !.raised = TRUE] ELSE st
  ELSE IF u \notin DOMAIN st.seen \/ vu_dist < st.seen[u]
    THEN [st EXCEPT
            !.seen = (u :> vu_dist) @@ st.seen,
            !.queue = st.queue \cup
                      {[prio |-> vu_dist, cnt |-> st.c, node |-> u]},
            !.c = st.c + 1,
            !.paths = (u :> Append(st.paths[v], u)) @@ st.paths]
  ELSE st

\* The loop over the neighbours of v in _dijkstra_multisource.
RECURSIVE DijkstraRelax(_, _, _, _, _, _)
DijkstraRelax(g, status, modo, v, i, st) ==
  IF i > Len(g.adj[v]) \/ st.raised THEN st
  ELSE DijkstraRelax(g, status, modo, v, i + 1,
         DijkstraVisit(st, v, g.adj[v][i],
                       st.dist[v] + CalcularPeso(g, status, v, g.adj[v][i], modo)))

RECURSIVE DijkstraLoop(_, _, _, _, _)
\* The body of the while loop of _dijkstra_multisource for the popped e.
DijkstraPop(g, status, modo, target, st, e) ==
  IF e.node \in DOMAIN st.dist
    THEN DijkstraLoop(g, status, modo, target, [st EXCEPT !.queue = st.queue \ {e}])
  ELSE IF e.node = target THEN Found(st.paths[target])
  ELSE DijkstraLoop(g, status, modo, target,
         DijkstraRelax(g, status, modo, e.node, 1,
           [st EXCEPT !.queue = st.queue \ {e},
                      !.dist = (e.node :> e.prio) @@ st.dist]))

DijkstraLoop(g, status, modo, target, st) ==
  IF st.raised THEN Contradictory
  ELSE IF st.queue = {}
    THEN IF target \in DOMAIN st.dist THEN Found(st.paths[target]) ELSE NoPath
  ELSE DijkstraPop(g, status, modo, target, st, HeapMin(st.queue))

\* nx.dijkstra_path(graph, source, target, weight=peso(modo))
DijkstraPath(g, status, source, target, modo) ==
  IF ~InGraph(g, source) THEN NodeNotFound
  ELSE IF source = target THEN Found(<<target>>)
  ELSE DijkstraLoop(g, status, modo, target,
         [queue |-> {[prio |-> 0, cnt |-> 0, node |-> source]},
          seen |-> (source :> 0), dist |-> <<>>, c |-> 1, raised |-> FALSE,
          paths |-> (source :> <<source>>)])

\* The search plan_route runs for one profile.
SearchPath(g, status, source, target, modo) ==
  IF modo = "simples" THEN DijkstraPath(g, status, source, target, modo)
  ELSE AstarPath(g, status, source, target, modo)

(***************************************************************************)
(* plan_route, RoutePlan.formatar and the plan_route branch of             *)
(* ToolRegistry.call                                                       *)
(***************************************************************************)

NoPlan ==
  [origem |-> <<>>, destino |-> <<>>, modo |-> "", caminho |-> <<>>,
   custo_estimado |-> 0, baldeacoes |-> <<>>]

RoutePlan(g, status, o, d, modo, caminho) ==
  [origem |-> o, destino |-> d, modo |-> modo, caminho |-> caminho,
   custo_estimado |-> CustoTotal(g, status, caminho, modo),
   baldeacoes |-> DetectarBaldeacoes(g, caminho)]

\* The loop over modos: the plans found so far (in the order of modos) and
\* the exception that left the loop, if any.
RECURSIVE Melhores(_, _, _, _, _, _)
\* One profile: r is what its search returned or raised.
MelhoresModo(g, status, o, d, k, acc, r) ==
  IF r.kind = "path"
    THEN Melhores(g, status, o, d, k + 1,
           Append(acc, RoutePlan(g, status, o, d, Modos[k], r.path)))
  ELSE IF r.kind = "NetworkXNoPath"
    THEN Melhores(g, status, o, d, k + 1, acc)
  ELSE [raised |-> r.kind, planos |-> acc]

Melhores(g, status, o, d, k, acc) ==
  IF k > Len(Modos) THEN [raised |-> "", planos |-> acc]
  ELSE MelhoresModo(g, status, o, d, k, acc,
                    SearchPath(g, status, o, d, Modos[k]))

Least(planos, i) ==
  \A j \in 1..Len(planos) :
    planos[i].custo_estimado <= planos[j].custo_estimado

\* min that keeps the last of the least.
MinPlanoLast(planos) ==
  planos[CHOOSE i \in 1..Len(planos) :
           Least(planos, i) /\ \A j \in (i + 1)..Len(planos) : ~Least(planos, j)]

\* min(melhores.values(), key=custo_estimado): the first of the least.
MinPlano(planos) ==
  planos[CHOOSE i \in 1..Len(planos) :
           Least(planos, i) /\ \A j \in 1..(i - 1) : ~Least(planos, j)]

Outcome(kind, o, d, plano, planos) ==
  [kind |-> kind, origem |-> o, destino |-> d, plano |-> plano,
   melhores |-> planos]

\* The end of plan_route: m is what the loop over modos left.
Arbitrar(o, t, m) ==
  IF m.raised # "" THEN Outcome(m.raised, o, t, NoPlan, m.planos)
  ELSE IF m.planos = <<>> THEN Outcome("NoRouteFound", o, t, NoPlan, <<>>)
  ELSE Outcome("ok", o, t, MinPlano(m.planos), m.planos)

\* plan_route that gives up only when neither name resolves.
PlanRouteBothMissing(g, status, o, t) ==
  IF o = None /\ t = None
    THEN Outcome("StationNotFound", o, t, NoPlan, <<>>)
  ELSE Arbitrar(o, t, Melhores(g, status, o, t, 1, <<>>))

\* plan_route from the two resolved names on.  kind: "ok", or the
\* exception raised: "StationNotFound" and "NoRouteFound" are the two
\* ValueErrors of plan_route.
PlanRouteResolved(g, status, o, t) ==
  IF o = None \/ t = None
    THEN Outcome("StationNotFound", o, t, NoPlan, <<>>)
  ELSE Arbitrar(o, t, Melhores(g, status, o, t, 1, <<>>))

\* plan_route(origem, destino) on the built graph and the status map that
\* _fetch_status returns.
PlanRoute(d, g, status, origem, destino) ==
  PlanRouteResolved(g, status, ResolverEstacao(d, origem),
                    ResolverEstacao(d, destino))

Max(a, b) == IF a >= b THEN a ELSE b

\* RoutePlan.formatar: the minutes and the transfer lines of the text.
Formatar(plano) ==
  [origem |-> plano.origem, destino |-> plano.destino,
   minutos |-> Max(plano.custo_estimado, Len(plano.caminho) - 1),
   direta |-> plano.baldeacoes = <<>>,
   trocas |-> plano.baldeacoes]

NoTexto ==
  [origem |-> <<>>, destino |-> <<>>, minutos |-> 0, direta |-> FALSE,
   trocas |-> <<>>]

\* The keys of the JSON payload: "error", or the plan's fields and "texto".
Payload(err, plano, texto) ==
  [error |-> err, origem |-> plano.origem, destino |-> plano.destino,
   modo |-> plano.modo, caminho |-> plano.caminho,
   baldeacoes |-> plano.baldeacoes, texto |-> texto]

\* arguments.get("origin") or arguments.get("origem")
FirstTruthy(a, b) == IF a # <<>> THEN a ELSE b

\* What ToolRegistry.call makes of the outcome r of plan_route.
ToolReturn(r) ==
  IF r.kind = "ok"
    THEN [raised |-> "", called |-> TRUE,
          payload |-> Payload("", r.plano, Formatar(r.plano))]
  ELSE IF r.kind \in {"StationNotFound", "NoRouteFound", "ValueError"}
    THEN [raised |-> "", called |-> TRUE,
          payload |-> Payload(r.kind, NoPlan, NoTexto)]
  ELSE [raised |-> r.kind, called |-> TRUE,
        payload |-> Payload("", NoPlan, NoTexto)]

ToolMissing ==
  [raised |-> "", called |-> FALSE,
   payload |-> Payload("MissingArguments", NoPlan, NoTexto)]

\* ToolRegistry.call("plan_route", arguments) from the two arguments on: the
\* JSON payload returned, or the exception that escapes (raised # "").
ToolResolved(g, status, origem, destino, o, t) ==
  IF origem = <<>> \/ destino = <<>> THEN ToolMissing
  ELSE ToolReturn(PlanRouteResolved(g, status, o, t))

ToolPlanRoute(d, g, status, args) ==
  ToolResolved(g, status,
               FirstTruthy(args.origin, args.origem),
               FirstTruthy(args.destination, args.destino),
               ResolverEstacao(d, FirstTruthy(args.origin, args.origem)),
               ResolverEstacao(d, FirstTruthy(args.destination, args.destino)))

(***************************************************************************)
(* services/relatorio_service.py and the generate_report branch of         *)
(* ToolRegistry.call.  A token is a sequence of pieces: the double quote,  *)
(* the prefix "Bearer " and a compact JWT, which is one piece.  Texts of   *)
(* reports are sequences of words.  The fields of a report that come from  *)
(* the clock (titulo, data_hora, the file name) are left out.              *)
(***************************************************************************)

Quote == "\""
BearerPrefix == "Bearer "

\* JWTs signed with SECRET (HS256) and not expired: the one
\* build_collaborator_token makes, and one whose payload has no "name".
JwtNamed == "jwt{sub,name}"
JwtSubOnly == "jwt{sub}"
\* JWTs that jwt.decode refuses: expired, and signed with another key.
JwtExpired == "jwt{exp<now}"
JwtForged == "jwt{other key}"

SignedJwts == {JwtNamed, JwtSubOnly}

JwtPayload(jwt) ==
  IF jwt = JwtNamed
    THEN [sub |-> "teste.colaborador", name |-> "Colaborador de Teste"]
    ELSE [sub |-> "teste.token"]

\* jwt.decode(clean_token, SECRET, algorithms=["HS256"]): the payload of a
\* string that is exactly a JWT signed with SECRET and not expired; for
\* any other string it raises an InvalidTokenError (DecodeError,
\* InvalidSignatureError, ExpiredSignatureError).
JwtDecode(clean_token) ==
  IF Len(clean_token) = 1 /\ clean_token[1] \in SignedJwts
    THEN [raised |-> FALSE, payload |-> JwtPayload(clean_token[1])]
    ELSE [raised |-> TRUE, payload |-> <<>>]

\* token.replace("Bearer ", "") if token.startswith("Bearer ") else token
CleanToken(token) ==
  IF token # <<>> /\ Head(token) = BearerPrefix
    THEN SelectSeq(token, LAMBDA piece : piece # BearerPrefix)
    ELSE token

\* payload.get("name", payload.get("sub", "Colaborador"))
PayloadNome(payload) ==
  IF "name" \in DOMAIN payload THEN payload.name
  ELSE IF "sub" \in DOMAIN payload THEN payload.sub
  ELSE "Colaborador"

ColaboradorInfo(decoded) ==
  IF decoded.raised THEN [is_valid |-> FALSE, login |-> "", nome |-> ""]
  ELSE [is_valid |-> TRUE, login |-> decoded.payload.sub,
        nome |-> PayloadNome(decoded.payload)]

get_colaborador_info_from_token(token) ==
  ColaboradorInfo(JwtDecode(CleanToken(token)))

\* A dict gerar_relatorio returns; a key the dict lacks has the value "",
\* <<>> or FALSE here.
Relatorio(erro, conteudo, colaborador, pdf_gerado) ==
  [erro |-> erro, tipo |-> IF colaborador = "" THEN "" ELSE "relatorio",
   conteudo |-> conteudo, colaborador |-> colaborador,
   pdf_gerado |-> pdf_gerado,
   action_type |-> IF pdf_gerado THEN "pdf_generated" ELSE ""]

RelatorioErro(erro) == Relatorio(erro, <<>>, "", FALSE)

\* The end of gerar_relatorio: pdf_ok tells whether gerar_pdf_relatorio
\* wrote the file or raised.
RelatorioAutenticado(descricao, info, pdf_ok) ==
  IF ~info.is_valid THEN RelatorioErro("token_invalido")
  ELSE IF pdf_ok THEN Relatorio("", descricao, info.nome, TRUE)
  ELSE Relatorio("erro_geracao", descricao, info.nome, FALSE)

\* gerar_relatorio that asks for no user type.
gerar_relatorio_any_user(descricao, tipo_usuario, token, pdf_ok) ==
  IF token = <<>> THEN RelatorioErro("token_necessario")
  ELSE RelatorioAutenticado(descricao,
                            get_colaborador_info_from_token(token), pdf_ok)

gerar_relatorio(descricao, tipo_usuario, token, pdf_ok) ==
  IF tipo_usuario # "Colaborador" THEN RelatorioErro("acesso_negado")
  ELSE IF token = <<>> THEN RelatorioErro("token_necessario")
  ELSE RelatorioAutenticado(descricao,
                            get_colaborador_info_from_token(token), pdf_ok)

NoRelatorio == RelatorioErro("")

\* What ToolRegistry.call returns for generate_report: its own error, or
\* the dict of gerar_relatorio.
ReportPayload(error, resultado) == [error |-> error, resultado |-> resultado]

ApenasColaboradores == "Apenas colaboradores podem gerar relatorios."
TokenAusente == "Token de autenticacao ausente para geracao de relatorios."
SemDescricao == "Descreva o que deve constar no relatorio."

\* ToolRegistry.call("generate_report", arguments, tipo_usuario, token)
GenerateReport(arguments, tipo_usuario, token, pdf_ok) ==
  IF tipo_usuario # "Colaborador"
    THEN ReportPayload(ApenasColaboradores, NoRelatorio)
  ELSE IF token = <<>> THEN ReportPayload(TokenAusente, NoRelatorio)
  ELSE IF FirstTruthy(arguments.description, arguments.texto) = <<>>
    THEN ReportPayload(SemDescricao, NoRelatorio)
  ELSE ReportPayload("",
         gerar_relatorio(FirstTruthy(arguments.description, arguments.texto),
                         "Colaborador", token, pdf_ok))

\* The names of the tools ToolRegistry.list_tools offers to the model.
list_tools(tipo_usuario) ==
  <<"search_knowledge", "plan_route">>
    \o (IF tipo_usuario = "Colaborador" THEN <<"generate_report">> ELSE <<>>)

(***************************************************************************)
(* Inputs                                                                  *)
(***************************************************************************)

\* Station names as a caller may type them: the display names, the empty
\* string, other spellings of a station and a name of no station.
RawNames ==
  { Agua, Bras, Luz, Lapa, Se, Moema, Maua, Jau,
    <<>>,
    <<"l", "a", "p", "a">>,
    <<"S", "E">>,
    <<"L", "a", "p", "a", "a">>,
    <<"L", "u">>,
    <<"X", "y", "z">> }

Args(origin, origem, destination, destino) ==
  [origin |-> origin, origem |-> origem,
   destination |-> destination, destino |-> destino]

\* The arguments object of a plan_route tool call; a missing key is None.
ToolArgs ==
  {Args(o, None, t, None) :
     o \in {Agua, Luz, Moema, <<>>, <<"X", "y", "z">>},
     t \in {Se, Luz, Maua, <<>>, <<"L", "a", "p", "a", "a">>}}
  \cup {Args(None, o, None, t) : o \in {Agua, Moema}, t \in {Se, <<>>}}

TiposUsuario == {"Colaborador", "Passageiro", "colaborador"}

\* Tokens as a client may send them; None is a request without token.
Tokens ==
  { None,
    <<JwtNamed>>,
    <<BearerPrefix, JwtNamed>>,
    <<Quote, BearerPrefix, JwtNamed, Quote>>,
    <<BearerPrefix, BearerPrefix, JwtSubOnly>>,
    <<BearerPrefix, JwtExpired>>,
    <<JwtForged>>,
    <<"abc">> }

Descricao == <<"falha", "eletrica", "na", "Linha", "9">>

\* The arguments object of a generate_report tool call.
ReportArgs ==
  { [description |-> Descricao, texto |-> None],
    [description |-> None, texto |-> Descricao],
    [description |-> None, texto |-> None] }

RECURSIVE GrowPaths(_, _, _)
GrowPaths(g, frontier, all) ==
  LET next == UNION { {Append(p, v) : v \in Range(g.adj[p[Len(p)]]) \ Range(p)}
                      : p \in frontier }
  IN IF next = {} THEN all ELSE GrowPaths(g, next, all \cup next)

\* The paths of the graph that visit no station twice.
SimplePaths(g) ==
  GrowPaths(g, {<<n>> : n \in Range(g.nodes)}, {<<n>> : n \in Range(g.nodes)})

(***************************************************************************)
(* State machine                                                           *)
(***************************************************************************)

Fresh == [graph |-> FALSE, status |-> FALSE]

NoResult ==
  [op |-> "none", args |-> <<>>, value |-> <<>>, cached |-> Fresh, nth |-> 0]

\* The number of concurrent callers.
NThreads == 2

Threads == 1..NThreads

Parked == [pc |-> "idle", o |-> None, t |-> None]

\* The process before its first call: both lru_caches are empty.
Empty ==
  /\ dados \in Topologies
  /\ graphCache = [built |-> FALSE, graph |-> EmptyGraph]
  /\ statusCache = [fetched |-> FALSE, status |-> <<>>, error |-> "none"]
  /\ cacheInfo = [builds |-> 0, fetches |-> 0]

NoChat == [pc |-> "idle", op |-> "none", args |-> <<>>, value |-> <<>>]

\* The tasks that call KnowledgeIndex.search on one event loop.
NTasks == 2

Tasks == 1..NTasks

NoTask == [pc |-> "idle", blank |-> FALSE, error |-> ""]

\* KnowledgeIndex.__init__: the hash of the documents, no embeddings, a new
\* lock.  Embeddings and cache file are named by the hash of the documents
\* they were computed for; 0 is None, and no usable cache file.
NewKnowledgeIndex(data_hash, cache) ==
  [data_hash |-> data_hash, embeddings |-> 0, cache |-> cache,
   locked |-> FALSE, waiters |-> <<>>, tasks |-> [t \in Tasks |-> NoTask]]

\* The orchestrator before its first request.
Quiet ==
  /\ sessions = <<>>
  /\ reports = <<>>
  /\ chat = NoChat
  /\ index = NewKnowledgeIndex(1, 0)

Init ==
  /\ Empty
  /\ pc = "idle"
  /\ result = NoResult
  /\ threads = [i \in Threads |-> Parked]
  /\ Quiet

\* _build_graph() through its lru_cache.
Graph == IF graphCache.built THEN graphCache.graph ELSE BuildGraph(dados)

\* A wrapper that returns the value of the body and stores nothing.
BuiltNotStored(g) == [built |-> FALSE, graph |-> g]

Built(g) == [built |-> TRUE, graph |-> g]

Fetched(r) == [fetched |-> TRUE, status |-> r.status, error |-> r.error]

\* _fetch_status() through its lru_cache: the cached value, or the value of
\* a fetch that may end in any of the ways the feed allows.
StatusChoices ==
  IF statusCache.fetched THEN {statusCache}
  ELSE {Fetched(FetchStatus(resp)) : resp \in FeedResponses}

\* plan_route calls _calcular_peso (and so _fetch_status) when a search
\* expands a node, that is when both stations are nodes and differ.
NeedsStatus(g, o, t) ==
  o # None /\ t # None /\ InGraph(g, o) /\ InGraph(g, t) /\ o # t

\* The two lru_cache wrappers over one operation that calls _build_graph
\* (usesGraph) and _fetch_status (usesStatus): a call that finds its cache
\* empty runs the body.
Account(usesGraph, usesStatus) ==
  cacheInfo' =
    [builds |-> cacheInfo.builds
                + (IF usesGraph /\ ~graphCache.built THEN 1 ELSE 0),
     fetches |-> cacheInfo.fetches
                 + (IF usesStatus /\ ~statusCache.fetched THEN 1 ELSE 0)]

\* Which of the two values the operation got from a filled cache.
Cached(usesGraph, usesStatus) ==
  [graph |-> usesGraph /\ graphCache.built,
   status |-> usesStatus /\ statusCache.fetched]

\* The caches after plan_route resolved its arguments to o and t.
Caches(g, o, t) ==
  /\ graphCache' = IF o = None \/ t = None THEN graphCache ELSE Built(g)
  /\ statusCache' \in (IF NeedsStatus(g, o, t)
                         THEN StatusChoices ELSE {statusCache})
  /\ Account(o # None /\ t # None, NeedsStatus(g, o, t))

\* The position of a plan_route call in a run of calls with the same
\* arguments: 1 for a first call, 2 for a repeated one.
Nth == IF pc = "returned" THEN 2 ELSE 1

\* plan_route that searches on the status map as it was before the call.
PlanRouteDoStale(origem, destino, g, o, t) ==
  /\ Caches(g, o, t)
  /\ result' = [op |-> "plan_route", args |-> <<origem, destino>>,
                value |-> PlanRouteResolved(g, statusCache.status, o, t),
                cached |-> Cached(o # None /\ t # None,
                                  NeedsStatus(g, o, t)),
                nth |-> Nth]

PlanRouteDo(origem, destino, g, o, t) ==
  /\ Caches(g, o, t)
  /\ result' = [op |-> "plan_route", args |-> <<origem, destino>>,
                value |-> PlanRouteResolved(g, statusCache'.status, o, t),
                cached |-> Cached(o # None /\ t # None,
                                  NeedsStatus(g, o, t)),
                nth |-> Nth]

\* rota_service.plan_route(origem, destino)
PlanRouteCall(origem, destino) ==
  /\ pc = "idle"
  /\ PlanRouteDo(origem, destino, Graph,
                 ResolverEstacao(dados, origem),
                 ResolverEstacao(dados, destino))
  /\ pc' = "returned"
  /\ UNCHANGED <<dados, index, threads, chatVars>>

\* The names of the calls that the caller repeats.
RepeatNames ==
  { Agua, Lapa, Moema, <<"S", "E">>, <<"L", "u">>, <<"X", "y", "z">> }

\* The caller calls plan_route again with the arguments of the call that
\* has just returned.
PlanRouteRepeat ==
  /\ pc = "returned"
  /\ result.op = "plan_route"
  /\ result.args[1] \in RepeatNames
  /\ result.args[2] \in RepeatNames
  /\ PlanRouteDo(result.args[1], result.args[2], Graph,
                 ResolverEstacao(dados, result.args[1]),
                 ResolverEstacao(dados, result.args[2]))
  /\ pc' = "returned"
  /\ UNCHANGED <<dados, index, threads, chatVars>>

ToolDo(args, origem, destino, g, o, t) ==
  /\ Caches(g, o, t)
  /\ result' = [op |-> "tool", args |-> args,
                value |-> ToolResolved(g, statusCache'.status,
                                       origem, destino, o, t),
                cached |-> Cached(o # None /\ t # None,
                                  NeedsStatus(g, o, t)),
                nth |-> 1]

\* ToolRegistry.call("plan_route", arguments, ...)
ToolCall(args) ==
  /\ pc = "idle"
  /\ ToolDo(args,
            FirstTruthy(args.origin, args.origem),
            FirstTruthy(args.destination, args.destino),
            Graph,
            ResolverEstacao(dados, FirstTruthy(args.origin, args.origem)),
            ResolverEstacao(dados, FirstTruthy(args.destination, args.destino)))
  /\ pc' = "returned"
  /\ UNCHANGED <<dados, index, threads, chatVars>>

\* _fetch_status()
FetchStatusCall ==
  /\ pc = "idle"
  /\ statusCache' \in StatusChoices
  /\ Account(FALSE, TRUE)
  /\ result' = [op |-> "fetch", args |-> <<>>, value |-> statusCache'.status,
                cached |-> Cached(FALSE, TRUE), nth |-> 1]
  /\ pc' = "returned"
  /\ UNCHANGED <<dados, index, graphCache, threads, chatVars>>

PesoDo(g, u, v, modo) ==
  /\ HasEdge(g, u, v)
  /\ graphCache' = Built(g)
  /\ statusCache' \in StatusChoices
  /\ Account(TRUE, TRUE)
  /\ result' = [op |-> "peso", args |-> <<u, v, modo>>,
                value |-> CalcularPeso(g, statusCache'.status, u, v, modo),
                cached |-> Cached(TRUE, TRUE), nth |-> 1]

\* _calcular_peso(u, v, modo) on an edge of the graph
PesoCall(u, v, modo) ==
  /\ pc = "idle"
  /\ PesoDo(Graph, u, v, modo)
  /\ pc' = "returned"
  /\ UNCHANGED <<dados, index, threads, chatVars>>

DetectarDo(g) ==
  \E caminho \in SimplePaths(g) :
    /\ graphCache' = Built(g)
    /\ Account(TRUE, FALSE)
    /\ result' = [op |-> "detectar", args |-> caminho,
                  value |-> DetectarBaldeacoes(g, caminho),
                  cached |-> Cached(TRUE, FALSE), nth |-> 1]

\* _detectar_baldeacoes(caminho) on a path of the graph
DetectarCall ==
  /\ pc = "idle"
  /\ DetectarDo(Graph)
  /\ pc' = "returned"
  /\ UNCHANGED <<dados, index, statusCache, threads, chatVars>>

\* The caller takes the value and is ready for its next call.
Return ==
  /\ pc = "returned"
  /\ pc' = "idle"
  /\ result' = NoResult
  /\ UNCHANGED <<dados, index, graphCache, statusCache, cacheInfo, threads, chatVars>>

Stations == {Agua, Bras, Luz, Lapa, Se, Moema, Maua, Jau}

Next ==
  \/ \E origem \in RawNames, destino \in RawNames : PlanRouteCall(origem, destino)
  \/ PlanRouteRepeat
  \/ \E args \in ToolArgs : ToolCall(args)
  \/ FetchStatusCall
  \/ \E u \in Stations, v \in Stations, i \in 1..Len(Modos) : PesoCall(u, v, Modos[i])
  \/ DetectarCall
  \/ Return

Spec == Init /\ [][Next]_vars

(***************************************************************************)
(* Concurrent callers of plan_route.  functools.lru_cache keeps its table  *)
(* coherent but holds no lock while the wrapped body runs: a caller that   *)
(* finds the cache empty runs the body, and the first value stored stays.  *)
(* The search of a caller is left out here: it reads the status map once   *)
(* per edge, and the steps below end where its first read is answered.     *)
(***************************************************************************)

\* The pairs of names the concurrent callers pass.
ThreadCalls ==
  { <<Agua, Luz>>, <<Luz, Luz>>, <<<<"X", "y", "z">>, Luz>> }

At(i, where) == threads[i].pc = where

Goto(i, where) == threads' = [threads EXCEPT ![i].pc = where]

\* plan_route up to its call of _build_graph: the two names are resolved
\* and an unresolved one raises.
ThreadResolved(i, o, t) ==
  threads' = [threads EXCEPT
                ![i] = [pc |-> IF o = None \/ t = None THEN "done" ELSE "graph",
                        o |-> o, t |-> t]]

ThreadCall(i, origem, destino) ==
  /\ At(i, "idle")
  /\ ThreadResolved(i, ResolverEstacao(dados, origem),
                    ResolverEstacao(dados, destino))
  /\ UNCHANGED <<dados, index, graphCache, statusCache, cacheInfo, pc, result, chatVars>>

\* The lru_cache wrapper of _build_graph looks its key up: a hit returns
\* the cached graph, a miss enters the body.
ThreadGraphLookup(i) ==
  /\ At(i, "graph")
  /\ Goto(i, IF graphCache.built THEN "search" ELSE "building")
  /\ UNCHANGED <<dados, index, graphCache, statusCache, cacheInfo, pc, result, chatVars>>

\* The body of _build_graph has run; the wrapper stores its value unless
\* another caller stored one meanwhile.
ThreadBuild(i) ==
  /\ At(i, "building")
  /\ graphCache' = IF graphCache.built THEN graphCache
                   ELSE Built(BuildGraph(dados))
  /\ cacheInfo' = [cacheInfo EXCEPT !.builds = @ + 1]
  /\ Goto(i, "search")
  /\ UNCHANGED <<dados, index, statusCache, pc, result, chatVars>>

\* The search asks _fetch_status for the first time, if it weighs an edge
\* at all: a hit lets it run to its end, a miss enters the body.
ThreadStatusLookup(i) ==
  /\ At(i, "search")
  /\ Goto(i, IF /\ NeedsStatus(graphCache.graph, threads[i].o, threads[i].t)
                 /\ ~statusCache.fetched
                THEN "fetching" ELSE "done")
  /\ UNCHANGED <<dados, index, graphCache, statusCache, cacheInfo, pc, result, chatVars>>

\* The body of _fetch_status has run against the feed; the wrapper stores
\* its value unless another caller stored one meanwhile.
ThreadFetch(i) ==
  /\ At(i, "fetching")
  /\ \E resp \in FeedResponses :
       statusCache' = IF statusCache.fetched THEN statusCache
                      ELSE Fetched(FetchStatus(resp))
  /\ cacheInfo' = [cacheInfo EXCEPT !.fetches = @ + 1]
  /\ Goto(i, "done")
  /\ UNCHANGED <<dados, index, graphCache, pc, result, chatVars>>

\* plan_route returns or raises; the thread is free for another call.
ThreadReturn(i) ==
  /\ At(i, "done")
  /\ threads' = [threads EXCEPT ![i] = Parked]
  /\ UNCHANGED <<dados, index, graphCache, statusCache, cacheInfo, pc, result, chatVars>>

NextThreads ==
  \/ \E i \in Threads, c \in ThreadCalls : ThreadCall(i, c[1], c[2])
  \/ \E i \in Threads : ThreadGraphLookup(i)
  \/ \E i \in Threads : ThreadBuild(i)
  \/ \E i \in Threads : ThreadStatusLookup(i)
  \/ \E i \in Threads : ThreadFetch(i)
  \/ \E i \in Threads : ThreadReturn(i)

SpecThreads == Init /\ [][NextThreads]_vars

(***************************************************************************)
(* orchestrator.py: the guards of handle_message.  A user text is a        *)
(* sequence of characters; a reply is a sequence of one piece, the fixed   *)
(* sentence.                                                               *)
(***************************************************************************)

\* \w of a str pattern: letters (accented ones too), digits, underscore.
IsWordChar(c) ==
  \/ CodePoint[c] >= 48 /\ CodePoint[c] <= 57
  \/ CodePoint[c] >= 65 /\ CodePoint[c] <= 90
  \/ CodePoint[c] >= 97 /\ CodePoint[c] <= 122
  \/ CodePoint[c] >= 192 /\ CodePoint[c] <= 255

\* Where a maximal run of word characters of s begins, and where the run
\* that begins at i ends.
WordStarts(s) ==
  {i \in 1..Len(s) : IsWordChar(s[i]) /\ (i = 1 \/ ~IsWordChar(s[i - 1]))}

WordEnd(s, i) ==
  CHOOSE j \in i..Len(s) :
    /\ \A k \in i..j : IsWordChar(s[k])
    /\ j = Len(s) \/ ~IsWordChar(s[j + 1])

\* re.findall(r"\w+", s): the maximal runs of word characters, in order.
FindAllWords(s) ==
  [n \in 1..Cardinality(WordStarts(s)) |->
     LET i == CHOOSE i \in WordStarts(s) :
                Cardinality({j \in WordStarts(s) : j < i}) = n - 1
     IN SubSeq(s, i, WordEnd(s, i))]

\* The alternatives of EMERGENCY_PATTERNS with their character classes
\* written out.
EMERGENCY_PATTERNS ==
  { <<"a", "s", "s", "e", "d", "i", "o">>,
    <<"a", "s", "s", "e'", "d", "i", "o">>,
    <<"r", "o", "u", "b", "a", "d", "o">>,
    <<"r", "o", "u", "b", "a", "r", "a", "m">>, <<"r", "o", "u", "b", "o">>,
    <<"v", "i", "o", "l", "e", "n", "c", "i", "a">>,
    <<"v", "i", "o", "l", "e^", "n", "c", "i", "a">>,
    <<"a", "g", "r", "e", "s", "s", "a", "o">>,
    <<"a", "g", "r", "e", "s", "s", "a~", "o">>,
    <<"p", "e", "r", "i", "g", "o">>, <<"a", "j", "u", "d", "a">>,
    <<"s", "o", "c", "o", "r", "r", "o">>,
    <<"e", "m", "e", "r", "g", "e", "n", "c", "i", "a">>,
    <<"e", "m", "e", "r", "g", "e^", "n", "c", "i", "a">>,
    <<"h", "a", "r", "a", "s", "s", "m", "e", "n", "t">>,
    <<"r", "o", "b", "b", "e", "d">>, <<"s", "t", "o", "l", "e", "n">>,
    <<"r", "o", "b", "b", "e", "r", "y">>,
    <<"v", "i", "o", "l", "e", "n", "c", "e">>,
    <<"a", "g", "g", "r", "e", "s", "s", "i", "o", "n">>,
    <<"d", "a", "n", "g", "e", "r">>, <<"h", "e", "l", "p">>,
    <<"e", "m", "e", "r", "g", "e", "n", "c", "y">>,
    <<"a", "c", "o", "s", "o">>, <<"r", "o", "b", "a", "r", "o", "n">>,
    <<"r", "o", "b", "o">>, <<"a", "g", "r", "e", "s", "i", "o", "n">>,
    <<"a", "g", "r", "e", "s", "i", "o'", "n">>,
    <<"p", "e", "l", "i", "g", "r", "o">>, <<"a", "y", "u", "d", "a">> }

\* EMERGENCY_PATTERNS.search(user_text): \b(...)\b with re.IGNORECASE finds
\* an alternative that fills a whole run of word characters.
EmergencySearch(user_text) ==
  \E k \in 1..Len(FindAllWords(user_text)) :
     Lower(FindAllWords(user_text)[k]) \in EMERGENCY_PATTERNS

\* unidecode on the characters of the model: the accent is dropped.
unidecode(s) == AsciiIgnore(FlatMap([c \in Chars |-> Nfkd(c)], s))

token_keywords ==
  { <<"m", "e", "t", "r", "o">>, <<"c", "p", "t", "m">>,
    <<"m", "o", "n", "o", "t", "r", "i", "l", "h", "o">>,
    <<"l", "i", "n", "h", "a">>, <<"l", "i", "n", "h", "a", "s">>,
    <<"e", "s", "t", "a", "c", "a", "o">>,
    <<"e", "s", "t", "a", "c", "o", "e", "s">>,
    <<"b", "i", "l", "h", "e", "t", "e">>,
    <<"b", "i", "l", "h", "e", "t", "e", "s">>,
    <<"t", "a", "r", "i", "f", "a">>, <<"t", "a", "r", "i", "f", "a", "s">>,
    <<"p", "a", "s", "s", "a", "g", "e", "m">>,
    <<"p", "a", "s", "s", "a", "g", "e", "n", "s">>, <<"t", "r", "e", "m">>,
    <<"t", "r", "e", "n", "s">>,
    <<"t", "r", "e", "m", "m", "e", "t", "r", "o", "p", "o", "l", "i", "t", "a", "n", "o">>,
    <<"v", "i", "a", "q", "u", "a", "t", "r", "o">>,
    <<"v", "i", "a", "m", "o", "b", "i", "l", "i", "d", "a", "d", "e">>,
    <<"o", "n", "i", "b", "u", "s">>,
    <<"t", "e", "r", "m", "i", "n", "a", "l">>,
    <<"t", "e", "r", "m", "i", "n", "a", "i", "s">>,
    <<"c", "o", "r", "r", "e", "d", "o", "r">>,
    <<"c", "o", "r", "r", "e", "d", "o", "r", "e", "s">>,
    <<"t", "r", "a", "n", "s", "p", "o", "r", "t", "e">>,
    <<"b", "a", "l", "d", "e", "a", "c", "a", "o">>,
    <<"t", "r", "a", "n", "s", "f", "e", "r", "e", "n", "c", "i", "a">>,
    <<"h", "o", "r", "a", "r", "i", "o">>,
    <<"h", "o", "r", "a", "r", "i", "o", "s">>,
    <<"l", "o", "t", "a", "c", "a", "o">>,
    <<"l", "o", "t", "a", "c", "o", "e", "s">>,
    <<"e", "s", "t", "u", "d", "a", "n", "t", "e">>,
    <<"e", "s", "t", "u", "d", "a", "n", "t", "e", "s">>,
    <<"p", "a", "u", "l", "i", "s", "t", "a">>,
    <<"b", "i", "l", "l", "e", "t", "e">>, <<"s", "u", "b", "w", "a", "y">>,
    <<"t", "u", "b", "e">> }

frase_keywords ==
  { <<"b", "i", "l", "h", "e", "t", "e", " ", "u", "n", "i", "c", "o">>,
    <<"s", "a", "o", " ", "p", "a", "u", "l", "o">> }

\* The topic test without its loop over the station names.
IsTransportTopicNoStations(estacoes, texto_unaccented, tokens_texto) ==
  /\ Strip(texto_unaccented) # <<>>
  /\ \/ token_keywords \cap tokens_texto # {}
     \/ \E frase \in frase_keywords : IsSubstring(frase, texto_unaccented)

\* LLMOrchestrator._is_transport_topic(texto), on the stations of the
\* topology d.
IsTransportTopicOf(estacoes, texto_unaccented, tokens_texto) ==
  /\ Strip(texto_unaccented) # <<>>
  /\ \/ token_keywords \cap tokens_texto # {}
     \/ \E frase \in frase_keywords : IsSubstring(frase, texto_unaccented)
     \/ \E k \in 1..Len(estacoes) :
          \/ IsSubstring(unidecode(Lower(estacoes[k])), texto_unaccented)
          \/ unidecode(Lower(estacoes[k])) \in tokens_texto

_is_transport_topic(d, texto) ==
  IsTransportTopicOf(ListAllStations(d), unidecode(Lower(texto)),
                     Range(FindAllWords(unidecode(Lower(texto)))))

\* The fixed sentences of the orchestrator.
NaoRecebi == <<"Nao recebi nenhuma mensagem. Poderia repetir?">>
EmergenciaColaborador ==
  <<"Recebi um relato de emergencia. Acione imediatamente o CCO">>
EmergenciaPassageiro ==
  <<"Sinto muito pelo ocorrido. Entre em contato com a seguranca">>
AvisoTransporte ==
  <<"Posso te ajudar com o transporte publico de Sao Paulo.">>
ProblemaModelo ==
  <<"Enfrentei um problema para falar com o modelo agora.">>
SemResposta ==
  <<"Desculpe, nao consegui formular uma resposta no momento.">>

\* LLMOrchestrator._resposta_emergencia(tipo_usuario)
_resposta_emergencia(tipo_usuario) ==
  IF tipo_usuario = "Colaborador" THEN EmergenciaColaborador
  ELSE EmergenciaPassageiro

\* handle_message with the topic guard ahead of the emergency guard.
EarlyReplyTopicFirst(d, user_text, tipo_usuario) ==
  IF user_text = <<>> \/ Strip(user_text) = <<>> THEN NaoRecebi
  ELSE IF ~_is_transport_topic(d, user_text) THEN AvisoTransporte
  ELSE IF EmergencySearch(user_text)
    THEN _resposta_emergencia(tipo_usuario)
  ELSE <<>>

\* The three early returns of handle_message: the one chunk it yields, or
\* <<>> when the message goes on to the chat loop.
EarlyReply(d, user_text, tipo_usuario) ==
  IF user_text = <<>> \/ Strip(user_text) = <<>> THEN NaoRecebi
  ELSE IF EmergencySearch(user_text)
    THEN _resposta_emergencia(tipo_usuario)
  ELSE IF ~_is_transport_topic(d, user_text) THEN AvisoTransporte
  ELSE <<>>

(***************************************************************************)
(* Requests to the assistant: report generation                            *)
(***************************************************************************)

\* Up to how many PDF files the model follows.
MaxReports == 2

routeVars == <<graphCache, statusCache, cacheInfo, pc, result, threads>>

\* gerar_pdf_relatorio writes one file for a report that came out.
Written(r) ==
  IF r.pdf_gerado
    THEN Append(reports, [conteudo |-> r.conteudo,
                          colaborador |-> r.colaborador])
    ELSE reports

\* relatorio_service.gerar_relatorio(descricao, tipo_usuario, token)
GerarRelatorioDo(descricao, tipo_usuario, token, r) ==
  /\ reports' = Written(r)
  /\ chat' = [pc |-> "returned", op |-> "gerar_relatorio",
              args |-> [descricao |-> descricao,
                        tipo_usuario |-> tipo_usuario, token |-> token],
              value |-> ReportPayload("", r)]

GerarRelatorioCall(descricao, tipo_usuario, token, pdf_ok) ==
  /\ chat.pc = "idle"
  /\ Len(reports) < MaxReports
  /\ GerarRelatorioDo(descricao, tipo_usuario, token,
                      gerar_relatorio(descricao, tipo_usuario, token, pdf_ok))
  /\ UNCHANGED <<dados, index, routeVars, sessions>>

\* ToolRegistry.call("generate_report", arguments, tipo_usuario=...,
\* token=...)
GenerateReportDo(arguments, tipo_usuario, token, payload) ==
  /\ reports' = Written(payload.resultado)
  /\ chat' = [pc |-> "returned", op |-> "generate_report",
              args |-> [descricao |-> FirstTruthy(arguments.description,
                                                  arguments.texto),
                        tipo_usuario |-> tipo_usuario, token |-> token],
              value |-> payload]

GenerateReportCall(arguments, tipo_usuario, token, pdf_ok) ==
  /\ chat.pc = "idle"
  /\ Len(reports) < MaxReports
  /\ GenerateReportDo(arguments, tipo_usuario, token,
                      GenerateReport(arguments, tipo_usuario, token, pdf_ok))
  /\ UNCHANGED <<dados, index, routeVars, sessions>>

\* The caller takes the answer.
ChatReturn ==
  /\ chat.pc = "returned"
  /\ chat' = NoChat
  /\ UNCHANGED <<dados, index, routeVars, sessions, reports>>

\* The report service and the report tool called on their own.
NextReports ==
  \/ \E tipo_usuario \in TiposUsuario, token \in Tokens, pdf_ok \in BOOLEAN :
       GerarRelatorioCall(Descricao, tipo_usuario, token, pdf_ok)
  \/ \E arguments \in ReportArgs, tipo_usuario \in TiposUsuario,
        token \in Tokens, pdf_ok \in BOOLEAN :
       GenerateReportCall(arguments, tipo_usuario, token, pdf_ok)
  \/ ChatReturn

SpecReports == Init /\ [][NextReports]_vars

(***************************************************************************)
(* Requests to the assistant: pipeline.process_user_input and              *)
(* LLMOrchestrator.handle_message.  The model service answers each call in *)
(* any of the ways its API allows.                                         *)
(***************************************************************************)

\* Up to how many messages the sessions hold together.
MaxStored == 4

\* SessionState.prune(max_messages=20)
MAX_MESSAGES == 20

prune(messages) ==
  IF Len(messages) <= MAX_MESSAGES THEN messages
  ELSE SubSeq(messages, Len(messages) - MAX_MESSAGES + 1, Len(messages))

\* tipo_usuario.lower()
TipoLower(tipo_usuario) ==
  IF tipo_usuario = "Passageiro" THEN "passageiro" ELSE "colaborador"

\* pipeline._build_session_id: the pieces of the key.
_build_session_id(tipo_usuario, token, session_override) ==
  IF session_override # None THEN session_override
  ELSE IF tipo_usuario = "Colaborador" /\ token # None
    THEN <<"collaborator::">> \o token
  ELSE <<TipoLower(tipo_usuario), "::anon">>

\* The id of a tool call: the one the model gave, or call_<n>.
NoId == [given |-> "", n |-> 0]

CallId(given, messages) ==
  IF given # "" THEN [given |-> given, n |-> 0]
  ELSE [given |-> "call_", n |-> Len(messages)]

\* The messages of a session: role, content, and for a tool call and its
\* result the name of the tool and the id of the call.
Msg(role, content, name, id) ==
  [role |-> role, content |-> content, name |-> name, tool_call_id |-> id]

UserMsg(user_text) == Msg("user", user_text, "", NoId)
AssistantMsg(content) == Msg("assistant", content, "", NoId)
ToolCallMsg(name, id) == Msg("assistant", None, name, id)
ToolMsg(name, id, tool_output) == Msg("tool", tool_output, name, id)

\* self._sessions, in the order the sessions were created.
SessionIds == {sessions[i].id : i \in 1..Len(sessions)}

Messages(session_id) ==
  IF session_id \in SessionIds
    THEN sessions[CHOOSE i \in 1..Len(sessions) :
                    sessions[i].id = session_id].messages
    ELSE <<>>

\* self._sessions with the messages of one session replaced; the session
\* is created if it was not there (setdefault).
Store(session_id, messages) ==
  IF session_id \in SessionIds
    THEN [i \in 1..Len(sessions) |->
            IF sessions[i].id = session_id
              THEN [id |-> session_id, messages |-> messages]
              ELSE sessions[i]]
    ELSE Append(sessions, [id |-> session_id, messages |-> messages])

\* How many messages the sessions hold together.
RECURSIVE StoredFrom(_)
StoredFrom(i) ==
  IF i > Len(sessions) THEN 0
  ELSE Len(sessions[i].messages) + StoredFrom(i + 1)

Stored == StoredFrom(1)

\* What one call of handle_message has done so far: the chunks it yielded,
\* the calls of the model, the tools it ran and the exception that left it.
Turn(chunks, model_calls, tools, raised) ==
  [chunks |-> chunks, model_calls |-> model_calls, tools |-> tools,
   raised |-> raised]

Handling(at, user_text, tipo_usuario, token, session_id, value) ==
  [pc |-> at, op |-> "handle_message",
   args |-> [user_text |-> user_text, tipo_usuario |-> tipo_usuario,
             token |-> token, session_id |-> session_id],
   value |-> value]

\* The same call one step further.
Step(at, chunks, tools, raised) ==
  [chat EXCEPT !.pc = at,
               !.value = Turn(chat.value.chunks \o chunks,
                              chat.value.model_calls + 1,
                              chat.value.tools \o tools, raised)]

\* handle_message up to the first call of the model: an early return, or
\* the user message stored in the session.
\* room bounds the messages the sessions may hold together.
HandleMessageWithin(room, user_text, tipo_usuario, token, session_id, early) ==
  IF early # <<>>
    THEN /\ chat' = Handling("returned", user_text, tipo_usuario, token,
                             session_id, Turn(<<early>>, 0, <<>>, ""))
         /\ sessions' = sessions
    ELSE /\ Stored + 2 <= room
         /\ chat' = Handling("model", user_text, tipo_usuario, token,
                             session_id, Turn(<<>>, 0, <<>>, ""))
         /\ sessions' = Store(session_id,
                               Append(Messages(session_id),
                                      UserMsg(user_text)))

HandleMessageDo(user_text, tipo_usuario, token, session_id, early) ==
  HandleMessageWithin(MaxStored, user_text, tipo_usuario, token, session_id,
                      early)

\* process_user_input(user_input, tipo_usuario, token, session_id=...)
HandleMessage(user_text, tipo_usuario, token, session_override) ==
  /\ chat.pc = "idle"
  /\ HandleMessageDo(user_text, tipo_usuario, token,
                     _build_session_id(tipo_usuario, token, session_override),
                     EarlyReply(dados, user_text, tipo_usuario))
  /\ UNCHANGED <<dados, index, routeVars, reports>>

InChatLoop == chat.pc = "model" /\ chat.op = "handle_message"

History == Messages(chat.args.session_id)

\* The session of the call in progress gets more messages.
Extend(messages) ==
  sessions' = Store(chat.args.session_id, History \o messages)

\* The call ends: the finally clause prunes the session.
Finish(messages) ==
  sessions' = Store(chat.args.session_id, prune(History \o messages))

\* "".join(final_text)
RECURSIVE Join(_)
Join(final_text) ==
  IF final_text = <<>> THEN <<>>
  ELSE Head(final_text) \o Join(Tail(final_text))

\* chat.completions.create raises.
ModelFails ==
  /\ InChatLoop
  /\ Finish(<<AssistantMsg(ProblemaModelo)>>)
  /\ chat' = Step("returned", <<ProblemaModelo>>, <<>>, "")
  /\ UNCHANGED <<dados, index, routeVars, reports>>

\* The stream breaks after the chunks of final_text: the exception leaves
\* handle_message.
StreamFails(final_text) ==
  /\ InChatLoop
  /\ Finish(<<>>)
  /\ chat' = Step("returned", final_text, <<>>, "APIError")
  /\ UNCHANGED <<dados, index, routeVars, reports>>

\* The stream ends without a tool call.
ModelAnswers(final_text) ==
  /\ InChatLoop
  /\ Finish(<<AssistantMsg(IF Strip(Join(final_text)) = <<>>
                             THEN SemResposta
                             ELSE Strip(Join(final_text)))>>)
  /\ chat' = Step("returned", final_text, <<>>, "")
  /\ UNCHANGED <<dados, index, routeVars, reports>>

\* The stream ends with a call of the tool name: the assistant message
\* with the call is stored, the tool runs, and either its output is stored
\* and the loop goes on, or its exception leaves handle_message.
\* room bounds the messages the sessions may hold together.
ToolRoundWithin(room, name, given, tool_output, raised) ==
  /\ InChatLoop
  /\ Stored + 3 <= room
  /\ IF raised = ""
       THEN /\ Extend(<<ToolCallMsg(name, CallId(given, History)),
                        ToolMsg(name, CallId(given, History), tool_output)>>)
            /\ chat' = Step("model", <<>>, <<name>>, "")
       ELSE /\ Finish(<<ToolCallMsg(name, CallId(given, History))>>)
            /\ chat' = Step("returned", <<>>, <<name>>, raised)

ToolRound(name, given, tool_output, raised) ==
  ToolRoundWithin(MaxStored, name, given, tool_output, raised)

\* ToolRegistry.call("search_knowledge", ...): the results, or the
\* exception of KnowledgeIndex.search.
ModelCallsSearch(given, found) ==
  /\ ToolRound("search_knowledge", given, <<"results">>,
               IF found THEN "" ELSE "APIError")
  /\ UNCHANGED <<dados, index, routeVars, reports>>

\* The JSON text a plan_route tool call answers with.
RouteOutput(out) ==
  IF out.payload.error # "" THEN <<"error", out.payload.error>>
  ELSE <<"plano">> \o out.payload.caminho

\* The tool round of a plan_route call that answered out.
ModelCallsPlanRouteOut(given, out) ==
  /\ out.called \in BOOLEAN
  /\ ToolRound("plan_route", given, RouteOutput(out), out.raised)

ModelCallsPlanRouteDo(given, origem, destino, g, o, t) ==
  /\ IF origem = <<>> \/ destino = <<>>
       THEN UNCHANGED <<graphCache, statusCache, cacheInfo>>
       ELSE Caches(g, o, t)
  /\ ModelCallsPlanRouteOut(given,
       ToolResolved(g, statusCache'.status, origem, destino, o, t))
  /\ UNCHANGED <<dados, index, pc, result, threads, reports>>

\* ToolRegistry.call("plan_route", arguments, ...)
ModelCallsPlanRoute(given, args) ==
  /\ InChatLoop
  /\ Stored + 3 <= MaxStored
  /\ ModelCallsPlanRouteDo(given,
       FirstTruthy(args.origin, args.origem),
       FirstTruthy(args.destination, args.destino),
       Graph,
       ResolverEstacao(dados, FirstTruthy(args.origin, args.origem)),
       ResolverEstacao(dados, FirstTruthy(args.destination, args.destino)))

\* The JSON text a generate_report tool call answers with.
ReportOutput(payload) ==
  IF payload.error # "" THEN <<"error", payload.error>>
  ELSE IF payload.resultado.erro # "" THEN <<"erro", payload.resultado.erro>>
  ELSE <<"relatorio">> \o payload.resultado.conteudo

ModelCallsGenerateReportDo(given, payload) ==
  /\ Len(reports) < MaxReports
  /\ reports' = Written(payload.resultado)
  /\ ToolRound("generate_report", given, ReportOutput(payload), "")
  /\ UNCHANGED <<dados, index, routeVars>>

\* ToolRegistry.call("generate_report", arguments, ...)
ModelCallsGenerateReport(given, arguments, pdf_ok) ==
  /\ InChatLoop
  /\ ModelCallsGenerateReportDo(given,
       GenerateReport(arguments, chat.args.tipo_usuario, chat.args.token,
                      pdf_ok))

\* ToolRegistry.call with a name that is none of the three tools.
ModelCallsUnknown(given) ==
  /\ ToolRound("outra", given, <<"error", "Ferramenta desconhecida">>, "")
  /\ UNCHANGED <<dados, index, routeVars, reports>>

\* Messages of users.
UserTexts ==
  { <<>>,
    <<" ", " ">>,
    <<"S", "o", "c", "o", "r", "r", "o", " ", "n", "o", " ", "t", "r", "e", "m", "!">>,
    <<"H", "E", "L", "P">>,
    <<"a", "j", "u", "d", "a", "r">>,
    <<"T", "a", "r", "i", "f", "a", "?">> }

\* Who sends a message: the user type, the token and the session_id of
\* process_user_input.
Caller(tipo_usuario, token, session_id) ==
  [tipo_usuario |-> tipo_usuario, token |-> token, session_id |-> session_id]

Callers ==
  { Caller("Colaborador", <<BearerPrefix, JwtNamed>>, None),
    Caller("Colaborador", None, None),
    Caller("colaborador", <<BearerPrefix, JwtNamed>>, None),
    Caller("Passageiro", None, None),
    Caller("Passageiro", None, <<"s1">>) }

\* The text of the chunks a stream delivers.
FinalTexts == { <<>>, << <<" ">> >>, << <<"O", "k">>, <<"!">> >> }

\* The id the model gives to a tool call; it may give none.
GivenIds == {"", "call_a"}

ChatRouteArgs ==
  { Args(Agua, None, Luz, None),
    Args(None, Moema, None, Luz),
    Args(None, None, None, Luz) }

NextChat ==
  \/ \E user_text \in UserTexts, c \in Callers :
       HandleMessage(user_text, c.tipo_usuario, c.token, c.session_id)
  \/ ModelFails
  \/ \E final_text \in FinalTexts : StreamFails(final_text)
  \/ \E final_text \in FinalTexts : ModelAnswers(final_text)
  \/ \E given \in GivenIds, found \in BOOLEAN : ModelCallsSearch(given, found)
  \/ \E given \in GivenIds, args \in ChatRouteArgs :
       ModelCallsPlanRoute(given, args)
  \/ \E given \in GivenIds, arguments \in ReportArgs, pdf_ok \in BOOLEAN :
       ModelCallsGenerateReport(given, arguments, pdf_ok)
  \/ \E given \in GivenIds : ModelCallsUnknown(given)
  \/ ChatReturn

\* The orchestrator starts over the full network or over the short one.
InitChat == Init /\ dados \in {TopoTwoLines, TopoBranch}

SpecChat == InitChat /\ [][NextChat]_vars

TypeOK ==
  /\ Len(reports) <= MaxReports
  /\ chat.pc \in {"idle", "model", "returned"}
  /\ Stored <= MaxStored
  /\ dados \in Topologies
  /\ graphCache.built \in BOOLEAN
  /\ statusCache.fetched \in BOOLEAN
  /\ statusCache.error \in {"none", "request", "record"}
  /\ cacheInfo.builds \in Nat
  /\ cacheInfo.fetches \in Nat
  /\ \A i \in Threads :
       threads[i].pc \in {"idle", "graph", "building", "search",
                          "fetching", "done"}
  /\ pc \in {"idle", "returned"}
  /\ result.op \in {"none", "plan_route", "tool", "fetch", "peso", "detectar"}

(***************************************************************************)
(* Properties                                                              *)
(***************************************************************************)

IsPlanRoute == pc = "returned" /\ result.op = "plan_route"
IsTool == pc = "returned" /\ result.op = "tool"

Lines == {dados.linhas[k] : k \in 1..Len(dados.linhas)}

CanonicalStations == UNION {Range(l.estacoes) : l \in Lines}

Last(s) == s[Len(s)]

IsWalk(g, caminho) ==
  \A i \in 1..(Len(caminho) - 1) : HasEdge(g, caminho[i], caminho[i + 1])

\* C1: for every pair of names that resolve to stations of the same
\* connected component, plan_route returns a plan whose path starts at the
\* resolved origin, ends at the resolved destination and steps only along
\* edges of the station graph.
C1_PathIsWalk ==
  IsPlanRoute =>
    LET o == ResolverEstacao(dados, result.args[1])
        t == ResolverEstacao(dados, result.args[2])
        p == result.value.plano
    IN (o # None /\ t # None /\ Reachable(graphCache.graph, o, t)) =>
         /\ result.value.kind = "ok"
         /\ p.caminho # <<>>
         /\ Head(p.caminho) = o
         /\ Last(p.caminho) = t
         /\ IsWalk(graphCache.graph, p.caminho)

\* A plan over four edges that changes line on its way.
C1_Witness ==
  /\ IsPlanRoute
  /\ result.value.kind = "ok"
  /\ Len(result.value.plano.caminho) = 5
  /\ result.value.plano.baldeacoes # <<>>

Prioridade(modo) == CHOOSE i \in 1..Len(Modos) : Modos[i] = modo

\* C2: plan_route returns, among the profile results that produced a path,
\* one of minimum estimated cost, and among those of minimum cost the one
\* whose profile comes first in the order rapido, simples, acessivel.
C2_MinCostByPriority ==
  (IsPlanRoute /\ result.value.kind = "ok") =>
    LET planos == Range(result.value.melhores)
        p == result.value.plano
    IN /\ p \in planos
       /\ \A q \in planos : p.custo_estimado <= q.custo_estimado
       /\ \A q \in planos :
            q.custo_estimado = p.custo_estimado =>
              Prioridade(p.modo) <= Prioridade(q.modo)

\* Two profiles tie on a positive cost and a third one costs more.
C2_Witness ==
  /\ IsPlanRoute
  /\ result.value.kind = "ok"
  /\ Len(result.value.melhores) = 3
  /\ result.value.melhores[1].custo_estimado > 0
  /\ result.value.melhores[1].custo_estimado
       = result.value.melhores[2].custo_estimado
  /\ result.value.melhores[3].custo_estimado
       > result.value.melhores[1].custo_estimado

\* C3: for any canonical station x of the topology, plan_route(x, x) returns
\* the plan with path [x], cost 0 and no transfers, and never an error.
C3_ZeroHopPlan ==
  (/\ IsPlanRoute
   /\ result.args[1] \in CanonicalStations
   /\ result.args[2] = result.args[1]) =>
    /\ result.value.kind = "ok"
    /\ result.value.plano.caminho = <<result.args[1]>>
    /\ result.value.plano.custo_estimado = 0
    /\ result.value.plano.baldeacoes = <<>>

NoEdges(g, n) == ~InGraph(g, n) \/ g.adj[n] = <<>>

\* C4: when the origin resolves to a station with no edges at all,
\* plan_route fails with the no-route ValueError for every other resolvable
\* destination, and with no other error.
C4_IsolatedOriginNoRoute ==
  IsPlanRoute =>
    LET o == ResolverEstacao(dados, result.args[1])
        t == ResolverEstacao(dados, result.args[2])
    IN (o # None /\ t # None /\ o # t /\ NoEdges(BuildGraph(dados), o)) =>
         result.value.kind = "NoRouteFound"

Unresolved(origem, destino) ==
  ResolverEstacao(dados, origem) = None \/ ResolverEstacao(dados, destino) = None

\* C5: when the origin or the destination does not resolve to a canonical
\* station (the empty string included), plan_route fails with the
\* station-not-found ValueError without building the graph, fetching the
\* status or searching, and the tool layer returns an error payload and lets
\* no exception out.
C5_StationNotFound ==
  [][ (pc = "idle" /\ pc' = "returned") =>
        /\ (result'.op = "plan_route"
            /\ Unresolved(result'.args[1], result'.args[2])) =>
             /\ result'.value.kind = "StationNotFound"
             /\ result'.value.melhores = <<>>
             /\ UNCHANGED <<graphCache, statusCache>>
        /\ (result'.op = "tool"
            /\ Unresolved(FirstTruthy(result'.args.origin, result'.args.origem),
                          FirstTruthy(result'.args.destination,
                                      result'.args.destino))) =>
             /\ result'.value.raised = ""
             /\ result'.value.payload.error
                  \in {"StationNotFound", "MissingArguments"}
             /\ result'.value.payload.caminho = <<>>
             /\ UNCHANGED <<graphCache, statusCache>> ]_vars

\* The tool layer called plan_route with a name of no station and answered
\* with the station-not-found payload.
C5_Witness ==
  /\ IsTool
  /\ result.value.called
  /\ result.value.payload.error = "StationNotFound"
  /\ result.args.origin = <<"X", "y", "z">>

FetchFailed == statusCache.fetched /\ statusCache.error = "request"

\* The line's situation in the status map names a degradation.
DegradedSpec(status, linha) ==
  \E k \in DOMAIN status :
    /\ k = Normalize(linha)
    /\ \E p \in Keywords : IsSubstring(p, Lower(status[k]))

\* C6: when the one status fetch failed (network, HTTP or timeout), the
\* status map is empty, plan_route still returns a plan for every connected
\* pair, and every edge of that plan costs the base time only.
C6_FetchFailureDegrades ==
  FetchFailed =>
    /\ \A l \in Lines : ~DegradedSpec(statusCache.status, l.nome)
    /\ (pc = "returned" /\ result.op = "fetch") => result.value = <<>>
    /\ IsPlanRoute =>
         LET o == ResolverEstacao(dados, result.args[1])
             t == ResolverEstacao(dados, result.args[2])
             p == result.value.plano
         IN (o # None /\ t # None /\ Reachable(graphCache.graph, o, t)) =>
              /\ result.value.kind = "ok"
              /\ p.custo_estimado = TEMPO_BASE * (Len(p.caminho) - 1)

\* A plan over at least two edges computed after the fetch failed.
C6_Witness ==
  /\ FetchFailed
  /\ IsPlanRoute
  /\ result.value.kind = "ok"
  /\ Len(result.value.plano.caminho) >= 3

\* C7: whenever an error occurs while the feed is fetched or parsed, the map
\* _fetch_status returns is the previously fetched map, which before the
\* first successful fetch is the empty map: never a partly filled one.
C7_ErrorKeepsPreviousMap ==
  (statusCache.fetched /\ statusCache.error # "none") =>
    statusCache.status = <<>>

Pos(caminho, estacao) == CHOOSE i \in 1..Len(caminho) : caminho[i] = estacao

\* The stations of the path where the line of the edge that arrives differs
\* from the line of the edge that leaves.
Changes(g, caminho) ==
  {i \in 2..(Len(caminho) - 1) :
     EdgeLinha(g, caminho[i - 1], caminho[i])
       # EdgeLinha(g, caminho[i], caminho[i + 1])}

TransfersMatch(g, caminho, bs) ==
  /\ Len(bs) = Cardinality(Changes(g, caminho))
  /\ {<<Pos(caminho, bs[k][1]), bs[k][2], bs[k][3]>> : k \in 1..Len(bs)}
       = {<<i, EdgeLinha(g, caminho[i - 1], caminho[i]),
              EdgeLinha(g, caminho[i], caminho[i + 1])>> :
            i \in Changes(g, caminho)}
  /\ \A k \in 1..(Len(bs) - 1) :
       Pos(caminho, bs[k][1]) < Pos(caminho, bs[k + 1][1])
  /\ \A k \in 1..Len(bs) : bs[k][2] # bs[k][3]

\* C8: the transfers list has one entry (station, from_line, to_line) for
\* each position where the line of edge i differs from the line of edge
\* i-1 and no other entry; the station is the one the two edges share, the
\* entries follow the path and from_line # to_line.  On the two lines
\* [Agua, Bras, Luz] and [Luz, Lapa, Se] the plan from Agua to Se has the
\* single transfer at Luz from L1 to L2.
C8_TransfersAtLineChanges ==
  /\ (pc = "returned" /\ result.op = "detectar") =>
       TransfersMatch(graphCache.graph, result.args, result.value)
  /\ (IsPlanRoute /\ result.value.kind = "ok") =>
       \A k \in 1..Len(result.value.melhores) :
         TransfersMatch(graphCache.graph, result.value.melhores[k].caminho,
                        result.value.melhores[k].baldeacoes)
  /\ (IsPlanRoute /\ dados = TopoTwoLines /\ result.args = <<Agua, Se>>) =>
       /\ result.value.plano.caminho = <<Agua, Bras, Luz, Lapa, Se>>
       /\ result.value.plano.baldeacoes = << <<Luz, L1, L2>> >>

\* A path with two line changes, the first at its second station.
C8_Witness ==
  /\ pc = "returned"
  /\ result.op = "detectar"
  /\ Len(result.value) = 2
  /\ result.value[1][1] = result.args[2]

RECURSIVE SumOver(_, _)
SumOver(f, S) ==
  IF S = {} THEN 0
  ELSE LET x == CHOOSE x \in S : TRUE IN f[x] + SumOver(f, S \ {x})

\* What the profile adds to an edge that leaves station u.
ProfileExtra(g, u, modo) ==
  IF modo = "acessivel" THEN 2
  ELSE IF modo = "simples" /\ g.baldeacoes[u] # <<>> THEN 3
  ELSE 0

\* C9: the estimated cost of the returned plan is the sum over the edges of
\* its path of the profile's edge cost: the base time 3, plus 10 when the
\* situation of the edge's line contains a degradation keyword in any
\* letter case, plus what the profile adds.  With line L1 = [Agua, Bras,
\* Luz] degraded the plan from Agua to Luz costs 26, and 6 without.
C9_CostIsSumOfEdgeCosts ==
  (IsPlanRoute /\ result.value.kind = "ok") =>
    LET p == result.value.plano
        g == graphCache.graph
        cost == [i \in 1..(Len(p.caminho) - 1) |->
                   3 + (IF DegradedSpec(statusCache.status,
                                        EdgeLinha(g, p.caminho[i],
                                                  p.caminho[i + 1]))
                          THEN 10 ELSE 0)
                     + ProfileExtra(g, p.caminho[i], p.modo)]
    IN /\ p.custo_estimado = SumOver(cost, DOMAIN cost)
       /\ (dados = TopoTwoLines /\ result.args = <<Agua, Luz>>) =>
            p.custo_estimado
              = IF DegradedSpec(statusCache.status, L1) THEN 26 ELSE 6

\* A plan that crosses a line whose situation is written in capitals.
C9_Witness ==
  /\ IsPlanRoute
  /\ result.value.kind = "ok"
  /\ result.value.plano.custo_estimado = 16
  /\ Len(result.value.plano.caminho) = 3
  /\ DegradedSpec(statusCache.status, L2)

\* C10: under the simples profile an edge with a transfer station at either
\* endpoint costs 3 more than under rapido, any other edge costs the same,
\* and the cost is the same in both directions.
C10_SimplesPenaltyBothEnds ==
  (pc = "returned" /\ result.op = "peso" /\ result.args[3] = "simples") =>
    LET g == graphCache.graph
        u == result.args[1]
        v == result.args[2]
    IN /\ result.value
            = CalcularPeso(g, statusCache.status, u, v, "rapido")
              + (IF g.baldeacoes[u] # <<>> \/ g.baldeacoes[v] # <<>>
                   THEN 3 ELSE 0)
       /\ result.value = CalcularPeso(g, statusCache.status, v, u, "simples")

\* The simple paths of g from u to v.
PathsBetween(g, u, v) ==
  {q \in SimplePaths(g) : Head(q) = u /\ Last(q) = v}

PlanoDoModo(modo) ==
  {p \in Range(result.value.melhores) : p.modo = modo}

\* C11: under every status map, the path plan_route computes for the rapido
\* profile costs no more, in rapido weights, than any other path of the
\* graph from the resolved origin to the resolved destination.
C11_FastPathOptimal ==
  (IsPlanRoute /\ result.value.kind = "ok") =>
    \A p \in PlanoDoModo("rapido") :
      \A q \in PathsBetween(graphCache.graph, p.origem, p.destino) :
        p.custo_estimado
          <= CustoTotal(graphCache.graph, statusCache.status, q, "rapido")

\* The rapido path goes the long way round a degraded line: a path of fewer
\* hops joins the same two stations.
C11_Witness ==
  /\ IsPlanRoute
  /\ result.value.kind = "ok"
  /\ \E p \in PlanoDoModo("rapido") :
       \E q \in PathsBetween(graphCache.graph, p.origem, p.destino) :
         /\ Len(q) < Len(p.caminho)
         /\ p.custo_estimado
              < CustoTotal(graphCache.graph, statusCache.status, q, "rapido")

\* The line names on the edges of g at station n.
EdgeLines(g, n) == {g.edge[<<n, v>>].linha : v \in Range(g.adj[n])}

\* C12: in the built graph a node carries the baldeacoes mark exactly when
\* the edges at it carry at least 2 distinct line names, and the mark lists
\* exactly those line names.
C12_MarkIffTwoEdgeLines ==
  graphCache.built =>
    \A n \in Range(graphCache.graph.nodes) :
      LET mark == graphCache.graph.baldeacoes[n]
          el == EdgeLines(graphCache.graph, n)
      IN /\ (mark # <<>>) <=> (Cardinality(el) >= 2)
         /\ (mark # <<>>) => (Range(mark) = el)

\* C13: for every line and every two consecutive stations of it, the built
\* graph has an edge between the two with tempo 3 that carries the name and
\* the operator of that line, whatever other lines run over the same pair.
C13_LineEdgesCarryLine ==
  graphCache.built =>
    \A l \in Lines :
      \A i \in 1..(Len(l.estacoes) - 1) :
        /\ HasEdge(graphCache.graph, l.estacoes[i], l.estacoes[i + 1])
        /\ graphCache.graph.edge[<<l.estacoes[i], l.estacoes[i + 1]>>]
             = [tempo |-> TEMPO_BASE, linha |-> l.nome,
                operadora |-> l.operadora]

Running(where) == {i \in Threads : threads[i].pc = where}

\* C14: among concurrent callers of plan_route at most one is ever inside
\* the body of _build_graph and at most one inside the body of
\* _fetch_status, and each body runs at most once: the other callers get the
\* value of that one run.
C14_OneBuilderOneFetcher ==
  /\ Cardinality(Running("building")) <= 1
  /\ Cardinality(Running("fetching")) <= 1
  /\ cacheInfo.builds <= 1
  /\ cacheInfo.fetches <= 1

\* C15: over a sequential series of calls the body of _build_graph and the
\* body of _fetch_status have each run exactly once as soon as their value
\* is in use, and never again: a filled cache keeps its graph and its
\* status map, the empty map of a failed fetch included.
C15_BuiltAndFetchedOnce ==
  [][/\ cacheInfo'.builds = (IF graphCache'.built THEN 1 ELSE 0)
     /\ cacheInfo'.fetches = (IF statusCache'.fetched THEN 1 ELSE 0)
     /\ graphCache.built => graphCache' = graphCache
     /\ statusCache.fetched => statusCache' = statusCache
     /\ (result'.op \in {"peso", "detectar"}) => graphCache'.built
     /\ (result'.op \in {"peso", "fetch"}) => statusCache'.fetched]_vars

\* A plan over at least one edge whose graph and status map both came from
\* the caches, the status map being the empty one a failed fetch left.
C15_Witness ==
  /\ IsPlanRoute
  /\ result.value.kind = "ok"
  /\ Len(result.value.plano.caminho) > 1
  /\ result.cached = [graph |-> TRUE, status |-> TRUE]
  /\ statusCache.error = "request"
  /\ statusCache.status = <<>>
  /\ cacheInfo = [builds |-> 1, fetches |-> 1]

\* The similarity of a canonical station to a name, both normalized.
Similarity(estacao, nome) == Ratio(Normalize(estacao), Normalize(nome))

\* What the resolver owes for nome: a station of the same normalized form
\* where one exists; else a station of similarity at least 8/10 that no
\* station exceeds; else None.
Resolves(nome, r) ==
  LET exact == {e \in CanonicalStations : Normalize(e) = Normalize(nome)}
      close == {e \in CanonicalStations :
                  10 * Similarity(e, nome)[1] >= 8 * Similarity(e, nome)[2]}
  IN IF exact # {} THEN r \in exact
     ELSE IF close = {} THEN r = None
     ELSE /\ r \in close
          /\ \A e \in close :
               ~RatioLess(Similarity(r, nome), Similarity(e, nome))

\* C16: a name whose normalized form is that of a canonical station
\* resolves to a station of that normalized form; any other name resolves
\* to a most similar station if its similarity is at least 0.8 and to
\* nothing otherwise.
C16_ExactThenBestAbove08 ==
  IsPlanRoute =>
    /\ Resolves(result.args[1], result.value.origem)
    /\ Resolves(result.args[2], result.value.destino)

\* "Lu" is no station but 0.8 similar to Luz, and "SE" has the normalized
\* form of Se'.
C16_Witness ==
  /\ IsPlanRoute
  /\ result.args = << <<"L", "u">>, <<"S", "E">> >>
  /\ result.value.origem = Luz
  /\ result.value.destino = Se
  /\ Similarity(Luz, <<"L", "u">>) = <<4, 5>>

IsReport ==
  chat.pc = "returned" /\ chat.op \in {"gerar_relatorio", "generate_report"}

\* The token carries a JWT that is signed with SECRET and not expired.
CarriesSignedJwt(token) == \E i \in 1..Len(token) : token[i] \in SignedJwts

\* The three refusals, as the service and as the tool layer word them.
AccessDenied(v) ==
  \/ v.error = "" /\ v.resultado.erro = "acesso_negado"
  \/ v.error = ApenasColaboradores

TokenRequired(v) ==
  \/ v.error = "" /\ v.resultado.erro = "token_necessario"
  \/ v.error = TokenAusente

TokenInvalid(v) == v.error = "" /\ v.resultado.erro = "token_invalido"

\* What a report request with arguments a that returned v owes: described
\* tells whether the invalid-token error is owed only to requests that give
\* a description.
ReportRules(a, v, refused, described) ==
  /\ (a.tipo_usuario # "Colaborador") => (AccessDenied(v) /\ refused)
  /\ (a.tipo_usuario = "Colaborador" /\ a.token = <<>>)
       => (TokenRequired(v) /\ refused)
  /\ (/\ a.tipo_usuario = "Colaborador"
      /\ a.token # <<>>
      /\ ~CarriesSignedJwt(a.token)
      /\ described => a.descricao # <<>>) => (TokenInvalid(v) /\ refused)
  /\ (v.resultado.pdf_gerado \/ ~refused) =>
       /\ a.tipo_usuario = "Colaborador"
       /\ CarriesSignedJwt(a.token)
  /\ \A tipo \in TiposUsuario :
       ("generate_report" \in Range(list_tools(tipo)))
         <=> (tipo = "Colaborador")

\* C18 as stated: a report comes out, and a PDF is written, only for the
\* user type Colaborador with a token that carries a valid JWT; any other
\* user type is refused with the access-denied error, a Colaborador without
\* token with the token-required error, a Colaborador whose token carries no
\* valid JWT with the invalid-token error, and none of the three writes a
\* PDF, on the service call and on the tool call alike.
C18_RefusalsOnBothPaths ==
  [][(IsReport' /\ chat.pc = "idle") =>
       ReportRules(chat'.args, chat'.value,
                   ~chat'.value.resultado.pdf_gerado /\ reports' = reports,
                   FALSE)]_vars

\* C18, amended: as C18, the invalid-token error being owed on the tool
\* call only when the arguments give a description; without one the tool
\* call of a Colaborador with a token ends in the missing-description error,
\* and writes no PDF either.
C18_ReportOnlyForAuthenticated ==
  [][(IsReport' /\ chat.pc = "idle") =>
       /\ ReportRules(chat'.args, chat'.value,
                      ~chat'.value.resultado.pdf_gerado /\ reports' = reports,
                      TRUE)
       /\ (/\ chat'.op = "generate_report"
           /\ chat'.args.tipo_usuario = "Colaborador"
           /\ chat'.args.token # <<>>
           /\ chat'.args.descricao = <<>>) =>
            /\ chat'.value.error = SemDescricao
            /\ reports' = reports]_vars

\* A passenger who holds a valid token was refused by the service, after a
\* report had been written for a Colaborador.
C18_Witness ==
  /\ IsReport
  /\ chat.op = "gerar_relatorio"
  /\ chat.args.tipo_usuario = "Passageiro"
  /\ CarriesSignedJwt(chat.args.token)
  /\ chat.value.resultado.erro = "acesso_negado"
  /\ Len(reports) = 1

\* The two forms in which the tests send a valid token.
TestTokens ==
  { <<BearerPrefix, JwtNamed>>, <<Quote, BearerPrefix, JwtNamed, Quote>> }

\* C19: for a Colaborador whose token is a valid JWT prefixed with
\* "Bearer ", with or without double quotes around the whole string, the
\* token is judged valid and, the PDF file being writable, the report is
\* generated.
C19_BearerFormsAccepted ==
  (/\ IsReport
   /\ chat.args.tipo_usuario = "Colaborador"
   /\ chat.args.token \in TestTokens
   /\ chat.args.descricao # <<>>) =>
    /\ get_colaborador_info_from_token(chat.args.token).is_valid
    /\ chat.value.resultado.erro \in {"", "erro_geracao"}

\* The text holds an alternative of EMERGENCY_PATTERNS, in any case of its
\* letters, with no word character right before it and none right after.
HoldsEmergencyWord(text) ==
  \E i \in 1..Len(text), j \in 1..Len(text) :
     /\ i <= j
     /\ Lower(SubSeq(text, i, j)) \in EMERGENCY_PATTERNS
     /\ i = 1 \/ ~IsWordChar(text[i - 1])
     /\ j = Len(text) \/ ~IsWordChar(text[j + 1])

\* A call of handle_message begins with this step.
MessageArrives ==
  chat.pc = "idle" /\ chat'.pc # "idle" /\ chat'.op = "handle_message"

\* C20: a message that is not blank and holds an emergency word is answered
\* at once with exactly one chunk, the emergency reply of the user type
\* (the one for collaborators or the one for everybody else), whether or
\* not the message is on the transport topic; the model is not called, no
\* tool is run, no report is written and the sessions stay as they were.
C20_EmergencyReplyOnly ==
  [][(/\ MessageArrives
      /\ Strip(chat'.args.user_text) # <<>>
      /\ HoldsEmergencyWord(chat'.args.user_text)) =>
       /\ chat'.pc = "returned"
       /\ chat'.value.chunks =
            << IF chat'.args.tipo_usuario = "Colaborador"
                 THEN EmergenciaColaborador ELSE EmergenciaPassageiro >>
       /\ chat'.value.model_calls = 0
       /\ chat'.value.tools = <<>>
       /\ chat'.value.raised = ""
       /\ sessions' = sessions
       /\ reports' = reports
       /\ graphCache' = graphCache
       /\ statusCache' = statusCache]_vars

\* An emergency message off the transport topic got the emergency reply
\* in a session that already holds an earlier conversation, and none of
\* the stored messages is the emergency message.
C20_Witness ==
  /\ chat.pc = "returned"
  /\ chat.op = "handle_message"
  /\ HoldsEmergencyWord(chat.args.user_text)
  /\ ~_is_transport_topic(dados, chat.args.user_text)
  /\ chat.value.chunks = <<EmergenciaPassageiro>>
  /\ Len(Messages(chat.args.session_id)) >= 2
  /\ \A k \in 1..Len(Messages(chat.args.session_id)) :
       Messages(chat.args.session_id)[k].content # chat.args.user_text

(***************************************************************************)
(* The topic guard of handle_message on its own                            *)
(***************************************************************************)

\* Messages for the topic guard: nothing, an emergency, a keyword as a
\* word, a keyword inside a longer word, the key phrase, a station name
\* as a word, a station name inside a longer word, and none of these.
GuardTexts ==
  { <<>>,
    <<"H", "E", "L", "P">>,
    <<"T", "a", "r", "i", "f", "a", "?">>,
    <<"M", "e", "t", "r", "o", "p", "o", "l", "e">>,
    <<"S", "a~", "o", " ", "P", "a", "u", "l", "o">>,
    <<"L", "a", "p", "a", "?">>,
    <<"S", "e", "r", "a">>,
    <<"a", "j", "u", "d", "a", "r">> }

\* Conversations without tool calls.
NextGuard ==
  \/ \E user_text \in GuardTexts, c \in Callers :
       HandleMessage(user_text, c.tipo_usuario, c.token, c.session_id)
  \/ ModelFails
  \/ \E final_text \in FinalTexts : ModelAnswers(final_text)
  \/ ChatReturn

SpecGuard == InitChat /\ [][NextGuard]_vars

\* The word w stands in the text s with no word character right before it
\* and none right after.
HoldsWord(w, s) ==
  \E i \in 1..Len(s), j \in 1..Len(s) :
     /\ i <= j
     /\ SubSeq(s, i, j) = w
     /\ i = 1 \/ ~IsWordChar(s[i - 1])
     /\ j = Len(s) \/ ~IsWordChar(s[j + 1])

\* The text, in lower case and without accents, holds a transport keyword
\* as a word, a key phrase, or the name of a station of the topology.
HoldsKeyword(text) ==
  \E kw \in token_keywords : HoldsWord(kw, unidecode(Lower(text)))

HoldsKeyPhrase(text) ==
  \E frase \in frase_keywords : IsSubstring(frase, unidecode(Lower(text)))

HoldsStationName(text) ==
  \E estacao \in CanonicalStations :
     IsSubstring(unidecode(Lower(estacao)), unidecode(Lower(text)))

\* C21: a message that is not blank and holds no emergency word is
\* answered at once with the off-topic reply if and only if it holds no
\* transport keyword as a word, no key phrase and no station name (lower
\* case, accents dropped); that answer comes with no model call and leaves
\* the sessions as they were, and any other such message, one that only
\* names a station included, enters the chat loop with the message stored.
C21_GuardrailIffOffTopic ==
  [][(/\ MessageArrives
      /\ Strip(chat'.args.user_text) # <<>>
      /\ ~HoldsEmergencyWord(chat'.args.user_text)) =>
       IF \/ HoldsKeyword(chat'.args.user_text)
          \/ HoldsKeyPhrase(chat'.args.user_text)
          \/ HoldsStationName(chat'.args.user_text)
         THEN /\ chat'.pc = "model"
              /\ chat'.value.chunks = <<>>
              /\ \E i \in 1..Len(sessions') :
                   /\ sessions'[i].id = chat'.args.session_id
                   /\ sessions'[i].messages =
                        Append(Messages(chat'.args.session_id),
                               UserMsg(chat'.args.user_text))
         ELSE /\ chat'.pc = "returned"
              /\ chat'.value.chunks = <<AvisoTransporte>>
              /\ chat'.value.model_calls = 0
              /\ chat'.value.tools = <<>>
              /\ sessions' = sessions]_vars

\* A message that names a station and holds no keyword and no key phrase
\* is in the chat loop, stored as the last message of its session.
C21_Witness ==
  /\ InChatLoop
  /\ ~HoldsKeyword(chat.args.user_text)
  /\ ~HoldsKeyPhrase(chat.args.user_text)
  /\ HoldsWord(<<"l", "a", "p", "a">>, unidecode(Lower(chat.args.user_text)))
  /\ Len(Messages(chat.args.session_id)) >= 1
  /\ Messages(chat.args.session_id)[Len(Messages(chat.args.session_id))] =
       UserMsg(chat.args.user_text)

\* C22: whenever plan_route returns a plan, the fast profile found a path
\* whose cost is no more than the cost of every other profile's result,
\* and the plan returned is the one of the fast profile.
C22_PlanIsRapido ==
  (IsPlanRoute /\ result.value.kind = "ok") =>
    /\ result.value.melhores # <<>>
    /\ result.value.melhores[1].modo = "rapido"
    /\ \A k \in 1..Len(result.value.melhores) :
         result.value.melhores[1].custo_estimado
           <= result.value.melhores[k].custo_estimado
    /\ result.value.plano = result.value.melhores[1]

\* The three profiles found a path of more than one edge, the simple and
\* the accessible results cost more than the fast one, and the fast plan
\* was returned.
C22_Witness ==
  /\ IsPlanRoute
  /\ result.value.kind = "ok"
  /\ Len(result.value.melhores) = 3
  /\ Len(result.value.plano.caminho) > 2
  /\ result.value.melhores[2].custo_estimado
       > result.value.melhores[1].custo_estimado
  /\ result.value.melhores[3].custo_estimado
       > result.value.melhores[2].custo_estimado
  /\ result.value.plano.modo = "rapido"

(***************************************************************************)
(* One long conversation                                                   *)
(***************************************************************************)

\* The messages one session may hold before the call is over: two more
\* than prune keeps.
MaxHistory == 22

\* One passenger goes on asking about the fare; the model answers, or
\* calls a tool that is not there, with an id of its own or without.
LongHandleMessage ==
  /\ chat.pc = "idle"
  /\ HandleMessageWithin(MaxHistory,
                         <<"T", "a", "r", "i", "f", "a", "?">>,
                         "Passageiro", None,
                         _build_session_id("Passageiro", None, None),
                         EarlyReply(dados,
                                    <<"T", "a", "r", "i", "f", "a", "?">>,
                                    "Passageiro"))
  /\ UNCHANGED <<dados, index, routeVars, reports>>

LongModelCallsUnknown(given) ==
  /\ ToolRoundWithin(MaxHistory, "outra", given,
                     <<"error", "Ferramenta desconhecida">>, "")
  /\ UNCHANGED <<dados, index, routeVars, reports>>

NextHistory ==
  \/ LongHandleMessage
  \/ ModelAnswers(<<>>)
  \/ \E given \in GivenIds : LongModelCallsUnknown(given)
  \/ ChatReturn

InitHistory == Init /\ dados = TopoBranch

SpecHistory == InitHistory /\ [][NextHistory]_vars

\* The message at place k of a history is the result of a tool.
IsToolResult(messages, k) == messages[k].role = "tool"

\* The message at place k is an assistant message with a tool call of the
\* id.
IsToolCall(messages, k, id) ==
  /\ messages[k].role = "assistant"
  /\ messages[k].name # ""
  /\ messages[k].tool_call_id = id

\* C23: in the stored history of every session, every message of role
\* tool comes right after an assistant message whose tool call has the
\* same id, also after the history was pruned to its last 20 messages.
C23_ToolAnswersPaired ==
  \A i \in 1..Len(sessions) :
    \A k \in 1..Len(sessions[i].messages) :
      IsToolResult(sessions[i].messages, k) =>
        /\ k > 1
        /\ IsToolCall(sessions[i].messages, k - 1,
                      sessions[i].messages[k].tool_call_id)

(***************************************************************************)
(* KnowledgeIndex: ensure_ready and search                                 *)
(***************************************************************************)

\* What happens to task t of the index ix.
TaskAt(ix, t, at, error) ==
  [ix EXCEPT !.tasks[t].pc = at, !.tasks[t].error = error]

\* An acquire that never waits.
CanAcquireAlways(ix) == TRUE

\* async with self._lock: asyncio.Lock.acquire goes on at once when the
\* lock is free and no task waits for it; otherwise the task waits in line.
CanAcquire(ix) == ~ix.locked /\ ix.waiters = <<>>

\* cached and cached.get("hash") == self._data_hash
CacheMatches(ix) == ix.cache # 0 /\ ix.cache = ix.data_hash

\* ensure_ready is left, which releases the lock, and search goes on
\* without a pause: a blank query returns [], any other awaits _embed_text.
AfterReady(ix, t) ==
  [ix EXCEPT !.locked = FALSE,
             !.tasks[t].pc = IF ix.tasks[t].blank THEN "returned"
                             ELSE "embedding"]

\* The body of ensure_ready, entered by task t with the lock, up to its
\* await.
EnsureReadyBody(ix, t) ==
  IF ix.embeddings # 0 THEN AfterReady(ix, t)
  ELSE IF CacheMatches(ix)
    THEN AfterReady([ix EXCEPT !.embeddings = ix.cache], t)
  ELSE [ix EXCEPT !.locked = TRUE, !.tasks[t].pc = "computing"]

\* self._embeddings = await self._embed_documents(...) returned, and
\* _write_cache wrote the file or raised.
EmbeddingsSet(ix, t, written) ==
  IF written
    THEN AfterReady([ix EXCEPT !.embeddings = ix.data_hash,
                               !.cache = ix.data_hash], t)
    ELSE TaskAt([ix EXCEPT !.embeddings = ix.data_hash, !.locked = FALSE],
            t, "raised", "OSError")

\* Task t calls search(query).
Search(t, blank) ==
  /\ index.tasks[t].pc = "idle"
  /\ index' =
       IF CanAcquire(index)
         THEN EnsureReadyBody([index EXCEPT !.tasks[t].blank = blank], t)
         ELSE [index EXCEPT !.tasks[t].blank = blank,
                            !.tasks[t].pc = "waiting",
                            !.waiters = Append(@, t)]
  /\ UNCHANGED <<dados, routeVars, chatVars>>

\* The release of the lock woke the first task in line: it takes the lock.
LockGranted(t) ==
  /\ index.tasks[t].pc = "waiting"
  /\ ~index.locked
  /\ index.waiters # <<>>
  /\ Head(index.waiters) = t
  /\ index' = EnsureReadyBody([index EXCEPT !.waiters = Tail(@)], t)
  /\ UNCHANGED <<dados, routeVars, chatVars>>

EmbedDocumentsReturns(t, written) ==
  /\ index.tasks[t].pc = "computing"
  /\ index' = EmbeddingsSet(index, t, written)
  /\ UNCHANGED <<dados, routeVars, chatVars>>

\* embeddings.create raises inside _embed_documents.
EmbedDocumentsRaises(t) ==
  /\ index.tasks[t].pc = "computing"
  /\ index' = TaskAt([index EXCEPT !.locked = FALSE], t, "raised", "APIError")
  /\ UNCHANGED <<dados, routeVars, chatVars>>

\* _embed_text returns and search returns its results, or it raises.
EmbedTextEnds(t, ok) ==
  /\ index.tasks[t].pc = "embedding"
  /\ index' = IF ok THEN TaskAt(index, t, "returned", "")
              ELSE TaskAt(index, t, "raised", "APIError")
  /\ UNCHANGED <<dados, routeVars, chatVars>>

\* The caller has the results or the exception of search.
SearchEnds(t) ==
  /\ index.tasks[t].pc \in {"returned", "raised"}
  /\ index' = [index EXCEPT !.tasks[t] = NoTask]
  /\ UNCHANGED <<dados, routeVars, chatVars>>

\* The hashes of the documents of two versions of the data files.
DataHashes == {1, 2}

\* The process starts again, with the cache file as it was left.
Restart(data_hash) ==
  /\ \A t \in Tasks : index.tasks[t].pc = "idle"
  /\ index' = NewKnowledgeIndex(data_hash, index.cache)
  /\ UNCHANGED <<dados, routeVars, chatVars>>

NextIndex ==
  \/ \E t \in Tasks, blank \in BOOLEAN : Search(t, blank)
  \/ \E t \in Tasks : LockGranted(t)
  \/ \E t \in Tasks, written \in BOOLEAN : EmbedDocumentsReturns(t, written)
  \/ \E t \in Tasks : EmbedDocumentsRaises(t)
  \/ \E t \in Tasks, ok \in BOOLEAN : EmbedTextEnds(t, ok)
  \/ \E t \in Tasks : SearchEnds(t)
  \/ \E data_hash \in DataHashes : Restart(data_hash)

SpecIndex == Init /\ [][NextIndex]_vars

\* The tasks inside _embed_documents.
Computing == {t \in Tasks : index.tasks[t].pc = "computing"}

\* Task t goes through the test of ensure_ready in this step.
Enters(t) ==
  /\ index.tasks[t].pc \in {"idle", "waiting"}
  /\ index'.tasks[t].pc \in {"computing", "embedding", "returned"}

\* A new KnowledgeIndex takes the place of the old one.
Restarted ==
  /\ \A t \in Tasks : index.tasks[t].pc = "idle"
  /\ index' = NewKnowledgeIndex(index'.data_hash, index.cache)

\* C24: with several search calls on one KnowledgeIndex, at most one task
\* at a time is computing the document embeddings, and only with the lock
\* held; once the embeddings are set they stay as they are and no task
\* computes them again; when the computation raises, the lock is free
\* again and the embeddings are still unset; and a task that enters
\* ensure_ready while they are unset and the cache file does not match
\* starts the computation.
C24_EmbeddingsComputedOnce ==
  [][/\ Cardinality(Computing') <= 1
     /\ Computing' # {} => index'.locked
     /\ (index.embeddings # 0 /\ ~Restarted) =>
          /\ index'.embeddings = index.embeddings
          /\ Computing' = {}
     /\ \A t \in Tasks :
          /\ (t \in Computing /\ index'.tasks[t].pc = "raised"
                /\ index'.tasks[t].error = "APIError") =>
               /\ ~index'.locked
               /\ index'.embeddings = 0
          /\ (Enters(t) /\ index.embeddings = 0 /\ ~CacheMatches(index)) =>
               index'.tasks[t].pc = "computing"]_vars

\* The computation of one task raised, and the task that waited for the
\* lock meanwhile is computing the embeddings now.
C24_Witness ==
  \E t \in Tasks, u \in Tasks :
    /\ index.tasks[t].pc = "raised"
    /\ index.tasks[t].error = "APIError"
    /\ index.embeddings = 0
    /\ index.tasks[u].pc = "computing"
    /\ index.locked

====
